---- MODULE Spec2Model ----
(***************************************************************************)
(* Model of the state-tracking core of wtrekell/companion.                 *)
(*                                                                         *)
(*   SpecJson    JsonStateManager (tools/_shared/storage.py) shared by     *)
(*               several collector processes, together with the locked     *)
(*               final merge of GmailCollector.collect_rule.               *)
(*   SpecSqlite  SqliteStateManager (tools/_shared/storage.py) and the     *)
(*               wall clock it stamps records with.                        *)
(*   SpecLoad    JsonStateManager.load_state and                           *)
(*               GmailCollector._load_state_with_validation as functions   *)
(*               of the document found in the state file.                  *)
(*   SpecRetry   GmailCollector._execute_with_retry around one API call.   *)
(*   SpecRetryLive  the same with the loop scheduled fairly.               *)
(*   SpecPace    RateLimitedHttpClient._rate_limit before each request.    *)
(*   SpecFeed    the item loops of RedditCollector.collect_subreddit and   *)
(*               StackExchangeCollector.collect_site.                      *)
(*   SpecRule    GmailCollector.collect_rule over the messages a rule      *)
(*               matches, from the first load to the final merge.          *)
(*   SpecFilter  apply_content_filter and matches_keywords                 *)
(*               (tools/_shared/filters.py), called directly and through   *)
(*               the filter cascades of the Gmail and web collectors.      *)
(*   SpecPair    a JsonStateManager and a SqliteStateManager receiving the *)
(*               same calls.                                               *)
(*   SpecShare   SpecRule beside a second process that writes the state    *)
(*               file during the run.                                      *)
(*   SpecLabel   GmailCollector.collect_label_rule for one labelled        *)
(*               message over successive runs.                             *)
(***************************************************************************)
EXTENDS Integers, Sequences, FiniteSets, TLC

VARIABLES
    \* ---- file backend: the directory holding the state file
    content,        \* inode -> text of the file (a sequence of JSON tokens)
    stateIno,       \* inode state_file_path names, NoIno when it does not exist
    leaked,         \* temp files left in the directory by a failed save_state
    lockHolder,     \* process holding flock(LOCK_EX) on <state>.lock, or NoProc
    \* ---- file backend: one collector process each
    pc,             \* position of the process in its current call
    op,             \* the call it is executing
    updates,        \* the `updates` argument of the call
    state,          \* the local `state` / `current_state` dict
    fd,             \* inode of the file the process has open
    exc,            \* exception propagating out of the call, or "none"
    ret,            \* what load_state returned to its caller
    failures,       \* I/O failures injected so far
    heldThroughout, \* history: the lock was held by another process from the
                    \* start of the call until now
    \* ---- table backend
    rows,           \* the processed_items table: a set of rows
    now,            \* the wall clock, as datetime.now() reads it
    calls,          \* calls made so far
    lastCall,       \* history: the last call, its arguments, its reading of the
                    \* clock, its result, and the mark call right before it
    \* ---- load validation
    doc,            \* what the text of the state file decodes to
    loadOut,        \* outcome of JsonStateManager.load_state on doc
    validOut,       \* outcome of GmailCollector._load_state_with_validation on doc
    \* ---- _execute_with_retry
    retry_pc,       \* position in the retry loop
    max_retries,    \* argument: retries allowed after the first attempt
    base_delay,     \* argument: base delay, in jitter steps
    attempt,        \* the loop variable
    last_error,     \* the last exception api_call_func raised
    delay,          \* the delay computed for the coming time.sleep
    invocations,    \* history: times api_call_func was invoked
    sleeps,         \* history: times time.sleep was called
    raised_error,   \* the exception raised to the caller and its __cause__
    \* ---- _rate_limit
    requests_per_second, \* constructor argument
    clock,          \* what time.time() returns
    last_request,   \* self._last_request
    prev_request,   \* history: _last_request before the last call
    requests,       \* history: calls of _rate_limit so far
    slept,          \* history: what the last call passed to time.sleep, or 0
    \* ---- Reddit and StackExchange item loops
    driver,         \* which collector runs
    local_state,    \* RedditCollector.self.state
    persisted_state, \* the stored state: state file or processed_items table
    stats,          \* the statistics the run returns
    last,           \* history: the last item handled and what was done for it
    \* ---- GmailCollector.collect_rule
    rule_pc,        \* position in collect_rule
    rule_actions,   \* rule.actions
    message_ids,    \* the messages found and not handled yet
    disk_messages,  \* "processed_messages" in the state file
    processed_messages, \* the local dict of the same name
    rule_stats,     \* the statistics of the run
    completed,      \* history: messages whose record the run has updated
    msg,            \* history: the last message handled and what was run for it
    \* ---- content filters
    filter_pc,      \* "idle", or "returned" once the call below has returned
    fcall,          \* the function called
    tz_offset,      \* the local time zone of the process, as an offset from UTC
    utc_now,        \* what datetime.now(tz=UTC) returns
    default_filters, \* config.default_filters of the collector, or NoFilters
    source_filters, \* the filters of the rule, source, subreddit or site
    filter_criteria, \* the filter_criteria dict handed to apply_content_filter
    content_data,   \* the content_data dict handed to it
    checks,         \* history: the checks it evaluated, in order, with outcomes
    result,         \* what the call returned, or the exception it raised
    \* ---- the two state backends behind one caller
    pair_call,      \* the last call the caller made, with its arguments
    json_file,      \* the dict in the state file of a JsonStateManager
    table_rows,     \* the processed_items rows of a SqliteStateManager
    pair_now,       \* the wall clock
    json_result,    \* what the call returned on the JsonStateManager
    table_result,   \* what the call returned on the SqliteStateManager
    \* ---- another process writing the Gmail state file during collect_rule
    foreign,        \* history: the records it has written since this run loaded
    foreign_writes, \* history: how many writes it has made
    \* ---- GmailCollector.collect_label_rule
    label_actions,  \* label_rule.actions
    label_record,   \* actions_applied of the message's record in the state file
    label_succeeded, \* history: the actions that were ever applied successfully
    label_runs,     \* history: runs of collect_label_rule so far
    label_last      \* history: what the last run did for the message

jsonVars == <<content, stateIno, leaked, lockHolder, pc, op, updates, state, fd,
              exc, ret, failures, heldThroughout>>
sqlVars == <<rows, now, calls, lastCall>>
loadVars == <<doc, loadOut, validOut>>
retryVars == <<retry_pc, max_retries, base_delay, attempt, last_error, delay,
               invocations, sleeps, raised_error>>
paceVars == <<requests_per_second, clock, last_request, prev_request, requests, slept>>
feedVars == <<driver, local_state, persisted_state, stats, last>>
ruleVars == <<rule_pc, rule_actions, message_ids, disk_messages, processed_messages,
              rule_stats, completed, msg>>
filterVars == <<filter_pc, fcall, tz_offset, utc_now, default_filters, source_filters,
                filter_criteria, content_data, checks, result>>
pairVars == <<pair_call, json_file, table_rows, pair_now, json_result, table_result>>
shareVars == <<foreign, foreign_writes>>
labelVars == <<label_actions, label_record, label_succeeded, label_runs, label_last>>
vars == <<jsonVars, sqlVars, loadVars, retryVars, paceVars, feedVars, ruleVars,
          filterVars, pairVars, shareVars, labelVars>>

(***************************************************************************)
(* Bounds of the model.                                                    *)
(***************************************************************************)
MaxCounter == 1
MaxFailures == 1

Procs == {"p1", "p2"}
NoProc == "none"
Items == {"A", "B"}
ActionNames == {"save", "archive"}

(***************************************************************************)
(* Records and containers of the file backend.                             *)
(***************************************************************************)
ItemRecords == [actions_applied : SUBSET ActionNames, counter : 0..MaxCounter]

\* A container maps the item ids it holds to their records.
Containers == UNION {[d -> ItemRecords] : d \in SUBSET Items}

EmptyContainer == [i \in {} |-> [actions_applied |-> {}, counter |-> 0]]

\* The deltas a caller hands to update_state: one item, with the one action
\* just applied to it and the counter just observed.
Deltas == {[i \in {x} |-> [actions_applied |-> {a}, counter |-> n]] :
              x \in Items, a \in ActionNames, n \in 0..MaxCounter}

(***************************************************************************)
(* json.dump / json.load: a document is written as a sequence of tokens,   *)
(* and a file holding only a prefix of them does not decode.               *)
(***************************************************************************)
LBrace == [t |-> "{", key |-> "", val |-> [actions_applied |-> {}, counter |-> 0]]
RBrace == [t |-> "}", key |-> "", val |-> [actions_applied |-> {}, counter |-> 0]]
LBracket == [t |-> "[", key |-> "", val |-> [actions_applied |-> {}, counter |-> 0]]
RBracket == [t |-> "]", key |-> "", val |-> [actions_applied |-> {}, counter |-> 0]]
Junk == [t |-> "junk", key |-> "", val |-> [actions_applied |-> {}, counter |-> 0]]
Entry(k, v) == [t |-> "entry", key |-> k, val |-> v]

\* Keys are written in dict order; the model fixes the order A, B.
KeyOrder == <<"A", "B">>

RECURSIVE EntriesFrom(_, _)
EntriesFrom(c, n) ==
    IF n > Len(KeyOrder) THEN <<>>
    ELSE (IF KeyOrder[n] \in DOMAIN c
            THEN <<Entry(KeyOrder[n], c[KeyOrder[n]])>>
            ELSE <<>>) \o EntriesFrom(c, n + 1)

\* json.dump(state, f): the text of a container.
Serialize(c) == <<LBrace>> \o EntriesFrom(c, 1) \o <<RBrace>>

\* The text is one complete JSON object.
IsObjectText(text) ==
    /\ Len(text) >= 2
    /\ text[1].t = "{"
    /\ text[Len(text)].t = "}"
    /\ \A n \in 2..(Len(text) - 1) : text[n].t = "entry"

\* The text is one complete JSON array.
IsArrayText(text) ==
    /\ Len(text) >= 2
    /\ text[1].t = "["
    /\ text[Len(text)].t = "]"
    /\ \A n \in 2..(Len(text) - 1) : text[n].t = "entry"

\* json.load(f) on an object text: the dict it holds.
Decode(text) ==
    [k \in {text[n].key : n \in 2..(Len(text) - 1)} |->
        (CHOOSE e \in {text[n] : n \in 2..(Len(text) - 1)} : e.key = k).val]

\* Texts a state file can hold that are no container.
InvalidJsonText == <<Junk>>
ListText == <<LBracket, RBracket>>


\* The text is what an unfinished write of a container leaves behind: nothing
\* yet, or an opening brace and entries with no closing brace.
IsPartial(text) ==
    \/ Len(text) = 0
    \/ /\ text[1].t = "{"
       /\ \A n \in 2..Len(text) : text[n].t = "entry"

\* A mutant of DictUpdate: a key that state already holds keeps its value.
DictSetDefault(st, upd) ==
    [k \in (DOMAIN st) \cup (DOMAIN upd) |-> IF k \in DOMAIN st THEN st[k] ELSE upd[k]]

\* state.update(updates): the keys of updates replace those of state.
DictUpdate(st, upd) ==
    [k \in (DOMAIN st) \cup (DOMAIN upd) |-> IF k \in DOMAIN upd THEN upd[k] ELSE st[k]]

(***************************************************************************)
(* The directory: inodes, the name of the state file, temp files.          *)
(***************************************************************************)
NoIno == 0
NumInodes == 1 + Cardinality(Procs) + MaxFailures
Inodes == 1..NumInodes

\* Inodes that a name in the directory or an open file still refers to.
Referenced(sIno, fds, lk) == ({sIno} \cup {fds[p] : p \in Procs} \cup lk) \ {NoIno}

\* Storage of an inode nothing refers to is given back.
Collect(cont, sIno, fds, lk) ==
    [i \in Inodes |-> IF i \in Referenced(sIno, fds, lk) THEN cont[i] ELSE <<>>]

\* The inode a new file gets.
FreshInode == CHOOSE i \in Inodes \ Referenced(stateIno, fd, leaked) :
                  \A j \in Inodes \ Referenced(stateIno, fd, leaked) : i <= j

\* The bug save_state avoids: writing the state file in place.
OpenStateFileInPlace == IF stateIno # NoIno THEN stateIno ELSE FreshInode

\* tempfile.NamedTemporaryFile(dir=temp_dir, delete=False): a new file of its own.
NamedTemporaryFile == FreshInode

\* The container a load_state would return now (empty when there is no file or
\* the file does not hold one).
Persisted ==
    IF stateIno # NoIno /\ IsObjectText(content[stateIno])
    THEN Decode(content[stateIno])
    ELSE EmptyContainer

(***************************************************************************)
(* Initial state of the file backend: no call in progress; the state file  *)
(* is missing, holds a container, or holds something that is no container. *)
(***************************************************************************)
InitialTexts ==
    {Serialize([i \in {"A"} |-> [actions_applied |-> {"save"}, counter |-> MaxCounter]]),
     InvalidJsonText, ListText}

InitJson ==
    /\ \/ /\ stateIno = NoIno
          /\ content = [i \in Inodes |-> <<>>]
       \/ /\ stateIno = 1
          /\ \E text \in InitialTexts :
                content = [i \in Inodes |-> IF i = 1 THEN text ELSE <<>>]
    /\ leaked = {}
    /\ lockHolder = NoProc
    /\ pc = [p \in Procs |-> "idle"]
    /\ op = [p \in Procs |-> "none"]
    /\ updates = [p \in Procs |-> EmptyContainer]
    /\ state = [p \in Procs |-> EmptyContainer]
    /\ fd = [p \in Procs |-> NoIno]
    /\ exc = [p \in Procs |-> "none"]
    /\ ret = [p \in Procs |-> EmptyContainer]
    /\ failures = 0
    /\ heldThroughout = [p \in Procs |-> FALSE]



\* The table backend and the load validation stand still while the file
\* backend runs.
JsonFrame == UNCHANGED <<sqlVars, loadVars, retryVars, paceVars, feedVars, ruleVars,
    filterVars, pairVars, shareVars, labelVars>>

\* Another process holds the lock.
HeldByOther(p) == lockHolder \notin {NoProc, p}

(***************************************************************************)
(* A collector process starts a call.                                      *)
(***************************************************************************)
\* JsonStateManager.update_state(updates)
StartUpdateState(p) ==
    /\ pc[p] = "idle"
    /\ \E u \in Deltas : updates' = [updates EXCEPT ![p] = u]
    /\ op' = [op EXCEPT ![p] = "update_state"]
    /\ pc' = [pc EXCEPT ![p] = "load_open"]
    /\ exc' = [exc EXCEPT ![p] = "none"]
    /\ heldThroughout' = [heldThroughout EXCEPT ![p] = HeldByOther(p)]
    /\ UNCHANGED <<content, stateIno, leaked, lockHolder, state, fd, ret, failures>>
    /\ JsonFrame

\* JsonStateManager.load_state()
StartLoadState(p) ==
    /\ pc[p] = "idle"
    /\ op' = [op EXCEPT ![p] = "load_state"]
    /\ pc' = [pc EXCEPT ![p] = "load_open"]
    /\ exc' = [exc EXCEPT ![p] = "none"]
    /\ updates' = [updates EXCEPT ![p] = EmptyContainer]
    /\ heldThroughout' = [heldThroughout EXCEPT ![p] = FALSE]
    /\ UNCHANGED <<content, stateIno, leaked, lockHolder, state, fd, ret, failures>>
    /\ JsonFrame

\* The final state update of GmailCollector.collect_rule, state_updates in hand.
StartCollectRuleMerge(p) ==
    /\ pc[p] = "idle"
    /\ \E u \in Deltas : updates' = [updates EXCEPT ![p] = u]
    /\ op' = [op EXCEPT ![p] = "collect_rule_merge"]
    /\ pc' = [pc EXCEPT ![p] = "lock_acquire"]
    /\ exc' = [exc EXCEPT ![p] = "none"]
    /\ heldThroughout' = [heldThroughout EXCEPT ![p] = FALSE]
    /\ UNCHANGED <<content, stateIno, leaked, lockHolder, state, fd, ret, failures>>
    /\ JsonFrame


(***************************************************************************)
(* JsonStateManager.load_state, one system call per step.                  *)
(***************************************************************************)
\* load_state returns data to the call that runs it.
LoadReturns(p, data) ==
    IF op[p] = "load_state"
    THEN /\ pc' = [pc EXCEPT ![p] = "done"]
         /\ ret' = [ret EXCEPT ![p] = data]
         /\ UNCHANGED <<state, exc>>
    ELSE \* update_state and the locked merge go on to merge and save
         /\ pc' = [pc EXCEPT ![p] = "save_write"]
         /\ state' = [state EXCEPT ![p] = DictUpdate(data, updates[p])]
         /\ UNCHANGED <<ret, exc>>

\* An exception leaves load_state or save_state: it ends update_state and
\* load_state, and unwinds through the with block of the locked merge.
Raises(p, e) ==
    /\ exc' = [exc EXCEPT ![p] = e]
    /\ pc' = [pc EXCEPT ![p] = IF op[p] = "collect_rule_merge" THEN "lock_exit" ELSE "done"]

\* if not self.state_file_path.exists(): return {}; open(self.state_file_path).
\* The state file, once it exists, is never unlinked, so the check and the
\* open that follows it see the same name and are one step.
LoadOpen(p) ==
    /\ pc[p] = "load_open"
    /\ IF stateIno = NoIno
       THEN /\ LoadReturns(p, EmptyContainer)
            /\ UNCHANGED fd
       ELSE /\ fd' = [fd EXCEPT ![p] = stateIno]
            /\ pc' = [pc EXCEPT ![p] = "load_read"]
            /\ UNCHANGED <<state, ret, exc>>
    /\ UNCHANGED <<content, stateIno, leaked, lockHolder, op, updates, failures,
                   heldThroughout>>
    /\ JsonFrame

\* data = json.load(f); the isinstance check; the file is closed.
LoadRead(p) ==
    /\ pc[p] = "load_read"
    /\ LET text == content[fd[p]]
           closed == [fd EXCEPT ![p] = NoIno]
       IN /\ fd' = closed
          /\ content' = Collect(content, stateIno, closed, leaked)
          /\ IF IsObjectText(text)
             THEN LoadReturns(p, Decode(text))
             ELSE IF IsArrayText(text)
             THEN \* not isinstance(data, dict): "Invalid state file"
                  /\ Raises(p, "StateManagementError")
                  /\ UNCHANGED <<state, ret>>
             ELSE \* json.JSONDecodeError: "Failed to load state"
                  /\ Raises(p, "StateManagementError")
                  /\ UNCHANGED <<state, ret>>
    /\ UNCHANGED <<stateIno, leaked, lockHolder, op, updates, failures,
                   heldThroughout>>
    /\ JsonFrame

(***************************************************************************)
(* JsonStateManager.save_state, one system call per step.                  *)
(***************************************************************************)
\* with tempfile.NamedTemporaryFile(...) as f: json.dump(state, f).
\* The temp file is created and the first part of the text reaches it.
SaveWrite(p) ==
    /\ pc[p] = "save_write"
    /\ LET ino == NamedTemporaryFile
           text == Serialize(state[p])
       IN /\ fd' = [fd EXCEPT ![p] = ino]
          /\ content' = [content EXCEPT ![ino] = SubSeq(text, 1, Len(text) \div 2)]
    /\ pc' = [pc EXCEPT ![p] = "save_flush"]
    /\ UNCHANGED <<stateIno, leaked, lockHolder, op, updates, state, exc, ret,
                   failures, heldThroughout>>
    /\ JsonFrame

\* f.flush(); os.fsync(f.fileno()); temp_path = f.name; the file is closed
SaveFlush(p) ==
    /\ pc[p] = "save_flush"
    /\ content' = [content EXCEPT ![fd[p]] = Serialize(state[p])]
    /\ pc' = [pc EXCEPT ![p] = "save_rename"]
    /\ UNCHANGED <<stateIno, leaked, lockHolder, op, updates, state, fd, exc, ret,
                   failures, heldThroughout>>
    /\ JsonFrame

\* The write, flush or fsync fails (OSError): temp_path is not bound yet, so
\* the except clause unlinks nothing and the temp file stays in the directory.
SaveFlushFails(p) ==
    /\ pc[p] = "save_flush"
    /\ failures < MaxFailures
    /\ failures' = failures + 1
    /\ leaked' = leaked \cup {fd[p]}
    /\ fd' = [fd EXCEPT ![p] = NoIno]
    /\ Raises(p, "StateManagementError")
    /\ UNCHANGED <<content, stateIno, lockHolder, op, updates, state, ret,
                   heldThroughout>>
    /\ JsonFrame

\* os.rename(temp_path, self.state_file_path)
SaveRename(p) ==
    /\ pc[p] = "save_rename"
    /\ LET closed == [fd EXCEPT ![p] = NoIno]
       IN /\ stateIno' = fd[p]
          /\ fd' = closed
          /\ content' = Collect(content, fd[p], closed, leaked)
    /\ pc' = [pc EXCEPT ![p] = IF op[p] = "collect_rule_merge" THEN "lock_exit" ELSE "done"]
    /\ UNCHANGED <<leaked, lockHolder, op, updates, state, exc, ret,
                   failures, heldThroughout>>
    /\ JsonFrame

\* os.rename fails (OSError): temp_path is bound, the temp file is unlinked.
SaveRenameFails(p) ==
    /\ pc[p] = "save_rename"
    /\ failures < MaxFailures
    /\ failures' = failures + 1
    /\ LET closed == [fd EXCEPT ![p] = NoIno]
       IN /\ fd' = closed
          /\ content' = Collect(content, stateIno, closed, leaked)
    /\ Raises(p, "StateManagementError")
    /\ UNCHANGED <<stateIno, leaked, lockHolder, op, updates, state, ret, heldThroughout>>
    /\ JsonFrame

(***************************************************************************)
(* The locked final merge of GmailCollector.collect_rule.                  *)
(***************************************************************************)
\* A mutant of WithExit: the lock is released on the normal path only.
ReleaseOnSuccessOnly(p) == IF exc[p] = "none" THEN NoProc ELSE lockHolder

\* Leaving `with open(lock_file_path, "w") as lock_file` closes the file, and
\* closing it drops the flock, whether or not an exception is passing through.
WithExit(p) == NoProc

\* open(lock_file_path, "w"); fcntl.flock(fd, LOCK_EX): waits for the lock
LockAcquire(p) ==
    /\ pc[p] = "lock_acquire"
    /\ lockHolder = NoProc
    /\ lockHolder' = p
    /\ pc' = [pc EXCEPT ![p] = "load_open"]
    /\ UNCHANGED <<content, stateIno, leaked, op, updates, state, fd, exc, ret, failures, heldThroughout>>
    /\ JsonFrame

\* open or flock raises OSError: logged, then the fallback
\* self.state_manager.update_state(state_updates) runs with no lock.
LockFails(p) ==
    /\ pc[p] = "lock_acquire"
    /\ failures < MaxFailures
    /\ failures' = failures + 1
    /\ op' = [op EXCEPT ![p] = "update_state"]
    /\ pc' = [pc EXCEPT ![p] = "load_open"]
    /\ heldThroughout' = [heldThroughout EXCEPT ![p] = HeldByOther(p)]
    /\ UNCHANGED <<content, stateIno, leaked, lockHolder, updates, state, fd, exc,
                   ret>>
    /\ JsonFrame

\* The with block is left; a StateManagementError is no OSError, so it passes
\* the except clause and reaches the caller as ContentProcessingError.
LockExit(p) ==
    /\ pc[p] = "lock_exit"
    /\ lockHolder' = WithExit(p)
    /\ exc' = [exc EXCEPT ![p] = IF exc[p] = "none" THEN "none" ELSE "ContentProcessingError"]
    /\ pc' = [pc EXCEPT ![p] = "done"]
    /\ heldThroughout' = [q \in Procs |->
                            IF pc[q] = "done" \/ lockHolder' # NoProc
                            THEN heldThroughout[q] ELSE FALSE]
    /\ UNCHANGED <<content, stateIno, leaked, op, updates, state, fd, ret, failures>>
    /\ JsonFrame

(***************************************************************************)
(* The table backend: SqliteStateManager.                                  *)
(***************************************************************************)
MaxTime == 3
MaxDays == 1
MaxCalls == 3
\* Clock readings per day: cleanup_old_items subtracts days_to_retain * 24 * 3600
\* seconds; the model's clock counts in steps of 1/TicksPerDay day.
TicksPerDay == 2

\* The clock starts late enough for every cutoff to be a time of the model.
StartTime == MaxDays * TicksPerDay
EndTime == StartTime + MaxTime

\* datetime.isoformat(): fixed-width, zero-padded fields, most significant first.
Iso(t) == <<t \div 10, t % 10>>

\* The time an ISO text denotes.
TimeOf(ts) == ts[1] * 10 + ts[2]

\* Comparison of two TEXT values of equal length, as SQLite orders them.
TextLess(a, b) ==
    \E n \in 1..Len(a) :
        /\ a[n] < b[n]
        /\ \A m \in 1..(n - 1) : a[m] = b[m]

\* A mutant of Predates: rows stamped exactly at the cutoff go too.
PredatesOrEqual(ts, cutoffIso) == TextLess(ts, cutoffIso) \/ ts = cutoffIso

\* WHERE processed_timestamp < ?
Predates(ts, cutoffIso) == TextLess(ts, cutoffIso)

\* The metadata argument: None, an empty dict, or a dict of tracking counters.
NoMetadata == [kind |-> "None", answer_count |-> 0]
EmptyMetadata == [kind |-> "empty", answer_count |-> 0]
Metadata == {NoMetadata, EmptyMetadata} \cup [kind : {"dict"}, answer_count : 0..MaxCounter]

\* json.dumps(metadata) if metadata else None: an empty dict is stored as NULL.
MetadataJson(m) == IF m.kind = "dict" THEN m ELSE NoMetadata

SourceTypes == {"reddit"}
SourceNames == {"Python"}

\* A mutant of InsertOrReplace: a plain INSERT into a table without the key.
PlainInsert(table, row) == table \cup {row}

\* INSERT OR REPLACE on the PRIMARY KEY item_id: the row with this key, if
\* any, is deleted and the new row is inserted.
InsertOrReplace(table, row) == {r \in table : r.item_id # row.item_id} \cup {row}

\* is_item_processed(item_id): SELECT 1 ... WHERE item_id = ?
IsItemProcessed(id) == \E r \in rows : r.item_id = id

NoCall == [fn |-> "none", item_id |-> "", source_type |-> "", source_name |-> "",
           metadata |-> NoMetadata, days |-> 0, at |-> 0, result |-> 0,
           repeat |-> FALSE, prevMarked |-> "", prevAt |-> 0]

\* The file backend and the load validation stand still while the table
\* backend runs.
SqliteFrame == UNCHANGED <<jsonVars, loadVars, retryVars, paceVars, feedVars, ruleVars,
    filterVars, pairVars, shareVars, labelVars>>

InitSqlite ==
    /\ rows = {}
    /\ now = StartTime
    /\ calls = 0
    /\ lastCall = NoCall

\* Time passes between two calls.
Tick ==
    /\ now < EndTime
    /\ now' = now + 1
    /\ UNCHANGED <<rows, calls, lastCall>>
    /\ SqliteFrame

\* mark_item_processed(item_id, source_type, source_name, metadata)
MarkItemProcessed(id, st, sn, md) ==
    /\ calls < MaxCalls
    /\ calls' = calls + 1
    /\ LET timestamp == Iso(now)
           row == [item_id |-> id, source_type |-> st, source_name |-> sn,
                   processed_timestamp |-> timestamp, metadata_json |-> MetadataJson(md)]
       IN rows' = InsertOrReplace(rows, row)
    /\ lastCall' = [fn |-> "mark", item_id |-> id, source_type |-> st, source_name |-> sn,
                    metadata |-> md, days |-> 0, at |-> now, result |-> 0,
                    repeat |-> /\ lastCall.fn = "mark"
                               /\ lastCall.item_id = id
                               /\ lastCall.source_type = st
                               /\ lastCall.source_name = sn
                               /\ lastCall.metadata = md,
                    prevMarked |-> "", prevAt |-> 0]
    /\ UNCHANGED now
    /\ SqliteFrame

\* cleanup_old_items(days_to_retain)
CleanupOldItems(days) ==
    /\ calls < MaxCalls
    /\ calls' = calls + 1
    /\ LET cutoff == now - days * TicksPerDay
           cutoff_iso == Iso(cutoff)
           deleted == {r \in rows : Predates(r.processed_timestamp, cutoff_iso)}
       IN /\ rows' = rows \ deleted
          /\ lastCall' = [NoCall EXCEPT !.fn = "cleanup", !.days = days, !.at = now,
                              !.result = Cardinality(deleted),
                              !.prevMarked = IF lastCall.fn = "mark" THEN lastCall.item_id ELSE "",
                              !.prevAt = lastCall.at]
    /\ UNCHANGED now
    /\ SqliteFrame

(***************************************************************************)
(* Loading the state file: JsonStateManager.load_state and                 *)
(* GmailCollector._load_state_with_validation on every kind of document.   *)
(***************************************************************************)
\* An entry of processed_messages: a message record with actions_applied, a
\* dict without that key, or a value that is no dict.
MessageEntries == [shape : {"absent", "notdict", "no_actions"}, actions_applied : {{}}]
                  \cup [shape : {"valid"}, actions_applied : SUBSET ActionNames]

AbsentEntry == [shape |-> "absent", actions_applied |-> {}]
NoEntries == [i \in Items |-> AbsentEntry]

\* What the state file holds: nothing (no file), text that is no JSON, a JSON
\* list, or a JSON dict whose processed_messages is absent, a dict of
\* entries, a list of message ids (the old format), or of another type.
Docs ==
    [kind : {"missing", "invalid_json", "list"}, pm : {"absent"}, ids : {{}}, entries : {NoEntries}]
    \cup [kind : {"dict"}, pm : {"absent", "wrongtype"}, ids : {{}}, entries : {NoEntries}]
    \cup [kind : {"dict"}, pm : {"list"}, ids : SUBSET Items, entries : {NoEntries}]
    \cup [kind : {"dict"}, pm : {"dict"}, ids : {{}}, entries : [Items -> MessageEntries]]

\* {} as JsonStateManager.load_state returns it for a missing file.
EmptyDoc == [kind |-> "dict", pm |-> "absent", ids |-> {}, entries |-> NoEntries]

\* _create_initial_state(): {"processed_messages": {}, "version": "1.0", ...}
InitialState == [kind |-> "dict", pm |-> "dict", ids |-> {}, entries |-> NoEntries]

NotRun == [ran |-> FALSE, raised |-> FALSE, fresh |-> FALSE, value |-> EmptyDoc]
Raised == [ran |-> TRUE, raised |-> TRUE, fresh |-> FALSE, value |-> EmptyDoc]
Returned(d, isFresh) == [ran |-> TRUE, raised |-> FALSE, fresh |-> isFresh, value |-> d]

\* JsonStateManager.load_state as a function of the document.
LoadState(d) ==
    CASE d.kind = "missing" -> Returned(EmptyDoc, FALSE)
      [] d.kind = "invalid_json" -> Raised
      [] d.kind = "list" -> Raised
      [] OTHER -> Returned(d, FALSE)

\* The entries the validation loop keeps.
ValidEntries(entries) ==
    [i \in Items |-> IF entries[i].shape = "valid" THEN entries[i] ELSE AbsentEntry]

\* A mutant of LoadStateWithValidation: no except clause around the load.
LoadStateUnguarded(d) ==
    LET loaded == LoadState(d)
    IN IF loaded.raised THEN Raised
       ELSE IF loaded.value.pm = "wrongtype" THEN Returned(InitialState, TRUE)
       ELSE IF loaded.value.pm = "dict"
            THEN Returned([loaded.value EXCEPT !.entries = ValidEntries(@)], FALSE)
       ELSE Returned(loaded.value, FALSE)

\* GmailCollector._load_state_with_validation
LoadStateWithValidation(d) ==
    LET loaded == LoadState(d)
    IN IF loaded.raised THEN Returned(InitialState, TRUE)
       ELSE IF loaded.value.pm = "wrongtype" THEN Returned(InitialState, TRUE)
       ELSE IF loaded.value.pm = "dict"
            THEN Returned([loaded.value EXCEPT !.entries = ValidEntries(@)], FALSE)
       ELSE Returned(loaded.value, FALSE)

\* The two backends stand still while a state file is loaded.
LoadFrame == UNCHANGED <<jsonVars, sqlVars, retryVars, paceVars, feedVars, ruleVars,
    filterVars, pairVars, shareVars, labelVars>>

InitLoad ==
    /\ doc \in Docs
    /\ loadOut = NotRun
    /\ validOut = NotRun

RunLoadState ==
    /\ ~loadOut.ran
    /\ loadOut' = LoadState(doc)
    /\ UNCHANGED <<doc, validOut>>
    /\ LoadFrame

RunLoadStateWithValidation ==
    /\ ~validOut.ran
    /\ validOut' = LoadStateWithValidation(doc)
    /\ UNCHANGED <<doc, loadOut>>
    /\ LoadFrame

(***************************************************************************)
(* GmailCollector._execute_with_retry.  Delays are counted in jitter       *)
(* steps: random.uniform(0, 1) is one of 0..JitterSteps steps, and a       *)
(* second is JitterSteps steps.                                            *)
(***************************************************************************)
MaxRetries == 2
MaxBaseDelay == 2
JitterSteps == 2
\* Cap of the history counter `invocations`; the loop stays below it.
MaxInvocations == MaxRetries + 2

\* The statuses the handler names, and two it does not.
TransientStatuses == {429, 500, 502, 503, 504}
OtherStatuses == {400, 404}

NoError == [kind |-> "none", status |-> 0]
HttpErrors == [kind : {"HttpError"}, status : TransientStatuses \cup OtherStatuses]
UnexpectedError == [kind |-> "Exception", status |-> 0]
NoRaise == [type |-> "none", cause |-> NoError]

RECURSIVE Pow2(_)
Pow2(n) == IF n = 0 THEN 1 ELSE 2 * Pow2(n - 1)

\* Mutant of IsTransient: every HTTP status is retried.
IsAnyStatus(status) == TRUE

\* `status_code in (429, 500, 502, 503, 504)`
IsTransient(status) == status \in TransientStatuses

\* Mutant of Backoff: the same delay before every retry.
FixedDelay(base, n) == base

\* `base_delay * (2**attempt)`
Backoff(base, n) == base * Pow2(n)

\* Mutant of NextAttempt: the loop variable does not advance.
SameAttempt(n) == n

\* `for attempt in range(max_retries + 1)`: the next value of the loop variable.
NextAttempt(n) == n + 1

RetryFrame == UNCHANGED <<jsonVars, sqlVars, loadVars, paceVars, feedVars, ruleVars,
    filterVars, pairVars, shareVars, labelVars>>

IdleRetry ==
    /\ retry_pc = "idle"
    /\ max_retries = 0
    /\ base_delay = 0
    /\ attempt = 0
    /\ last_error = NoError
    /\ delay = 0
    /\ invocations = 0
    /\ sleeps = 0
    /\ raised_error = NoRaise

\* The call of _execute_with_retry: arguments bound, last_error = None, and
\* the loop entered with attempt = 0.
ExecuteWithRetry(mr, bd) ==
    /\ retry_pc = "idle"
    /\ retry_pc' = "call"
    /\ max_retries' = mr
    /\ base_delay' = bd
    /\ attempt' = 0
    /\ last_error' = NoError
    /\ UNCHANGED <<delay, invocations, sleeps, raised_error>>
    /\ RetryFrame

\* `return api_call_func()` when the call returns.
ApiCallReturns ==
    /\ retry_pc = "call"
    /\ invocations < MaxInvocations
    /\ retry_pc' = "returned"
    /\ invocations' = invocations + 1
    /\ UNCHANGED <<max_retries, base_delay, attempt, last_error, delay, sleeps,
                   raised_error>>
    /\ RetryFrame

\* The statement after the loop: raise NetworkConnectionError from last_error.
RaiseAfterLoop(err) ==
    /\ retry_pc' = "raised"
    /\ raised_error' = [type |-> "NetworkConnectionError", cause |-> err]
    /\ UNCHANGED <<delay, attempt>>

\* api_call_func raises err: the two except clauses, up to the sleep or the
\* break out of the loop.
ApiCallRaises(err) ==
    /\ retry_pc = "call"
    /\ invocations < MaxInvocations
    /\ invocations' = invocations + 1
    /\ last_error' = err
    /\ IF err.kind = "HttpError" /\ IsTransient(err.status) /\ attempt < max_retries
       THEN /\ \E jitter \in 0..JitterSteps :
                  delay' = Backoff(base_delay, attempt) + jitter
            /\ retry_pc' = "sleep"
            /\ UNCHANGED <<attempt, raised_error>>
       ELSE RaiseAfterLoop(err)
    /\ UNCHANGED <<max_retries, base_delay, sleeps>>
    /\ RetryFrame

\* `time.sleep(delay); continue`: the next iteration of the loop, or the end
\* of the range.
SleepAndContinue ==
    /\ retry_pc = "sleep"
    /\ sleeps' = sleeps + 1
    /\ IF NextAttempt(attempt) < max_retries + 1
       THEN /\ attempt' = NextAttempt(attempt)
            /\ retry_pc' = "call"
            /\ UNCHANGED <<raised_error, delay>>
       ELSE RaiseAfterLoop(last_error)
    /\ UNCHANGED <<max_retries, base_delay, last_error, invocations>>
    /\ RetryFrame

(***************************************************************************)
(* RateLimitedHttpClient._rate_limit.  time.time() is read in ticks; a     *)
(* second is SecondTicks ticks, chosen so that 1.0 / requests_per_second   *)
(* is a whole number of ticks for every configured rate.                   *)
(***************************************************************************)
MaxRate == 2
MaxClock == 8
MaxOversleep == 1

RECURSIVE Factorial(_)
Factorial(n) == IF n <= 1 THEN 1 ELSE n * Factorial(n - 1)

SecondTicks == Factorial(MaxRate)

\* `self._last_request: float | None = None`
NoTime == -1

\* Mutant of SleepFor: the limiter never sleeps.
NoSleep(interval, elapsed) == 0

\* `time.sleep(interval - elapsed)`, called when elapsed < interval.
SleepFor(interval, elapsed) == interval - elapsed

PaceFrame == UNCHANGED <<jsonVars, sqlVars, loadVars, retryVars, feedVars, ruleVars,
    filterVars, pairVars, shareVars, labelVars>>

\* After __init__: no request made yet.
IdlePace ==
    /\ requests_per_second = 1
    /\ clock = 0
    /\ last_request = NoTime
    /\ prev_request = NoTime
    /\ requests = 0
    /\ slept = 0

InitPace ==
    /\ requests_per_second \in 1..MaxRate
    /\ clock = 0
    /\ last_request = NoTime
    /\ prev_request = NoTime
    /\ requests = 0
    /\ slept = 0

\* Time passes between two requests: the request itself, and whatever the
\* caller does before the next one.
Elapse ==
    /\ clock < MaxClock
    /\ clock' = clock + 1
    /\ UNCHANGED <<requests_per_second, last_request, prev_request, requests, slept>>
    /\ PaceFrame

\* _rate_limit(), called at the start of get() and post().  time.sleep
\* returns after the requested time or up to `over` ticks later.
RateLimit(over) ==
    /\ requests' = requests + 1
    /\ prev_request' = last_request
    /\ IF last_request = NoTime
       THEN /\ last_request' = clock
            /\ clock' = clock
            /\ slept' = 0
       ELSE LET interval == SecondTicks \div requests_per_second
                elapsed == clock - last_request
            IN  /\ IF elapsed < interval
                   THEN /\ slept' = SleepFor(interval, elapsed)
                        /\ clock' = clock + slept' + (IF slept' > 0 THEN over ELSE 0)
                   ELSE /\ slept' = 0
                        /\ clock' = clock
                /\ last_request' = clock'
    /\ clock' <= MaxClock
    /\ UNCHANGED requests_per_second
    /\ PaceFrame

(***************************************************************************)
(* The item loops of RedditCollector.collect_subreddit and                 *)
(* StackExchangeCollector.collect_site.  One step handles one item of the  *)
(* listing, from the freshness check to the statistics.  The stored state  *)
(* is a map from item id to the counters recorded for it: the JSON state   *)
(* file for Reddit, the processed_items table for StackExchange.           *)
(***************************************************************************)
MaxComments == 2
MaxActivity == 1
MaxPosts == 3

Drivers == {"reddit", "stackexchange"}

\* A listing entry without "question_id".
NoId == "no_id"

NoRecord == [stored |-> FALSE, count |-> 0, activity |-> 0]
FeedRecords == [stored : {TRUE}, count : 0..MaxComments, activity : 0..MaxActivity]
NoStats == [processed |-> 0, saved |-> 0, updated |-> 0, skipped |-> 0, errors |-> 0]
NoItem == [id |-> NoId, stored |-> NoRecord, count |-> 0, activity |-> 0,
           decision |-> "none", filter_evaluated |-> FALSE,
           content_fetched |-> FALSE, file_written |-> FALSE,
           state_written |-> FALSE, state_error |-> FALSE,
           counted_error |-> FALSE]

Bump(st, field) == [st EXCEPT ![field] = @ + 1]

\* Mutant of CounterIncreased: an equal counter counts as a change.
CounterNotDecreased(observed, stored_count) == observed >= stored_count

\* `comment_count > stored_comment_count`, `answer_count > stored_answer_count`,
\* `last_activity_date > stored_activity_date`
CounterIncreased(observed, stored_count) == observed > stored_count

\* RedditCollector._should_update_post on self.state.
ShouldUpdatePost(st, post_id, comment_count) ==
    IF ~st[post_id].stored
    THEN TRUE
    ELSE CounterIncreased(comment_count, st[post_id].count)

\* `submission.id in self.state and "last_updated" in self.state[submission.id]`
IsExistingPost(st, post_id) == st[post_id].stored

\* StackExchangeCollector._should_update_question: (should_process, is_update).
ShouldUpdateQuestion(table, question_id, answer_count, last_activity_date) ==
    IF ~table[question_id].stored
    THEN <<TRUE, FALSE>>
    ELSE IF CounterIncreased(answer_count, table[question_id].count)
         THEN <<TRUE, TRUE>>
         ELSE IF CounterIncreased(last_activity_date, table[question_id].activity)
              THEN <<TRUE, TRUE>>
              ELSE <<FALSE, FALSE>>

\* What the two results of the check mean to the loop: a skip, an update of
\* an item seen before, or a new item.
DecisionOf(should_process, is_update) ==
    IF ~should_process THEN "UNCHANGED"
    ELSE IF is_update THEN "UPDATE" ELSE "NEW"

\* Mutant of SkipsItem: the loop goes on whatever the check said.
NeverSkips(should_process) == FALSE

\* `if not self._should_update_post(...)` / `if not should_process`
SkipsItem(should_process) == ~should_process

FeedFrame == UNCHANGED <<jsonVars, sqlVars, loadVars, retryVars, paceVars, ruleVars,
    filterVars, pairVars, shareVars, labelVars>>

IdleFeed ==
    /\ driver = "reddit"
    /\ local_state = [i \in Items |-> NoRecord]
    /\ persisted_state = [i \in Items |-> NoRecord]
    /\ stats = NoStats
    /\ last = NoItem

\* The collector is constructed before its first run: Reddit loads the
\* state file, which does not exist yet, into self.state; StackExchange
\* creates the table.  The listings that follow may name an item again.
InitFeed ==
    /\ driver \in Drivers
    /\ persisted_state = [i \in Items |-> NoRecord]
    /\ local_state = [i \in Items |-> NoRecord]
    /\ stats = NoStats
    /\ last = NoItem

\* One iteration of `for submission in posts` in collect_subreddit.
\* passes: what apply_content_filter returns; save_fails: _save_post raises;
\* state_fails: update_state raises StateManagementError.
ProcessPost(id, num_comments, passes, save_fails, state_fails) ==
    LET should == ShouldUpdatePost(local_state, id, num_comments)
        existing == IsExistingPost(local_state, id)
        item == [NoItem EXCEPT !.id = id, !.stored = local_state[id],
                               !.count = num_comments,
                               !.decision = DecisionOf(should, existing)]
        counted == Bump(stats, "processed")
        record == [stored |-> TRUE, count |-> num_comments, activity |-> 0]
    IN  /\ driver = "reddit"
        /\ stats.processed < MaxPosts
        /\ IF SkipsItem(should)
           THEN /\ stats' = Bump(counted, "skipped")
                /\ last' = item
                /\ UNCHANGED <<local_state, persisted_state>>
           ELSE IF ~passes
           THEN /\ stats' = Bump(counted, "skipped")
                /\ last' = [item EXCEPT !.filter_evaluated = TRUE]
                /\ UNCHANGED <<local_state, persisted_state>>
           ELSE IF save_fails
           THEN /\ stats' = Bump(counted, "errors")
                /\ last' = [item EXCEPT !.filter_evaluated = TRUE,
                                        !.content_fetched = TRUE,
                                        !.counted_error = TRUE]
                /\ UNCHANGED <<local_state, persisted_state>>
           ELSE /\ stats' = Bump(counted, IF existing THEN "updated" ELSE "saved")
                /\ last' = [item EXCEPT !.filter_evaluated = TRUE,
                                        !.content_fetched = TRUE,
                                        !.file_written = TRUE,
                                        !.state_written = ~state_fails,
                                        !.state_error = state_fails]
                /\ IF state_fails
                   THEN UNCHANGED <<local_state, persisted_state>>
                   ELSE /\ persisted_state' = [persisted_state EXCEPT ![id] = record]
                        /\ local_state' = [local_state EXCEPT ![id] = record]
        /\ UNCHANGED driver
        /\ FeedFrame

\* One iteration of `for question in questions` in collect_site.
\* passes: what _apply_filters returns; state_fails: mark_item_processed
\* raises StateManagementError.
ProcessQuestion(id, answer_count, last_activity_date, passes, state_fails) ==
    LET counted == Bump(stats, "processed") IN
    /\ driver = "stackexchange"
    /\ stats.processed < MaxPosts
    /\ IF id = NoId
       THEN /\ stats' = Bump(counted, "skipped")
            /\ last' = NoItem
            /\ UNCHANGED persisted_state
       ELSE LET check == ShouldUpdateQuestion(persisted_state, id, answer_count,
                                              last_activity_date)
                item == [NoItem EXCEPT !.id = id, !.stored = persisted_state[id],
                                       !.count = answer_count,
                                       !.activity = last_activity_date,
                                       !.decision = DecisionOf(check[1], check[2])]
                record == [stored |-> TRUE, count |-> answer_count,
                           activity |-> last_activity_date]
            IN  IF SkipsItem(check[1])
                THEN /\ stats' = Bump(counted, "skipped")
                     /\ last' = item
                     /\ UNCHANGED persisted_state
                ELSE IF ~passes
                THEN /\ stats' = Bump(counted, "skipped")
                     /\ last' = [item EXCEPT !.filter_evaluated = TRUE]
                     /\ UNCHANGED persisted_state
                ELSE IF state_fails
                THEN /\ stats' = Bump(counted, "errors")
                     /\ last' = [item EXCEPT !.filter_evaluated = TRUE,
                                             !.content_fetched = TRUE,
                                             !.file_written = TRUE,
                                             !.state_error = TRUE,
                                             !.counted_error = TRUE]
                     /\ UNCHANGED persisted_state
                ELSE /\ stats' = Bump(counted, IF check[2] THEN "updated" ELSE "saved")
                     /\ last' = [item EXCEPT !.filter_evaluated = TRUE,
                                             !.content_fetched = TRUE,
                                             !.file_written = TRUE,
                                             !.state_written = TRUE]
                     /\ persisted_state' = [persisted_state EXCEPT ![id] = record]
    /\ UNCHANGED <<driver, local_state>>
    /\ FeedFrame

(***************************************************************************)
(* GmailCollector.collect_rule, one process.  StateCeiling stands for the  *)
(* 10,000 entries _cleanup_old_state_entries keeps and CheckpointEvery for *)
(* the 10 messages between two checkpoint saves.  last_processed is the    *)
(* rank of the ISO timestamp; 0 stands for a record without the field.     *)
(***************************************************************************)
StateCeiling == 2
CheckpointEvery == 2

MessageIds == 1..(StateCeiling + 1)
\* `rule.max_messages`
MaxMessages == CheckpointEvery

NoMessage == [stored |-> FALSE, actions_applied |-> {}, last_processed |-> 0]
MessageRecord(acts, stamp) == [stored |-> TRUE, actions_applied |-> acts,
                               last_processed |-> stamp]
\* The records earlier runs left: saved, or saved and archived, stamped in
\* the order of their ids.
EarlierRecords(m) == {NoMessage, MessageRecord({"save"}, m),
                      MessageRecord({"save", "archive"}, m)}
\* `rule.actions`
RuleActions == {{"save"}, {"archive"}, {"save", "archive"}}
\* How one message goes: all its pending actions succeed, the details are
\* None, fetching them raises, the content filter rejects it,
\* _process_message returns False, or the Gmail API refuses the other action.
Outcomes == {"ok", "no_details", "details_raise", "filtered", "save_false",
             "action_fails"}

NoRuleStats == [messages_processed |-> 0, messages_skipped |-> 0, errors |-> 0]
NoMessageSeen == [id |-> 0, recorded |-> {}, pending |-> {}, ran |-> {},
                  outcome |-> "none", skipped |-> FALSE]

StoredIds(pm) == {m \in DOMAIN pm : pm[m].stored}

\* `dict(sorted_items[:10000])` after the descending sort on last_processed.
KeepMostRecent(pm) ==
    [m \in DOMAIN pm |->
        IF pm[m].stored
           /\ Cardinality({o \in StoredIds(pm) :
                             pm[o].last_processed > pm[m].last_processed}) < StateCeiling
        THEN pm[m]
        ELSE NoMessage]

\* GmailCollector._cleanup_old_state_entries
CleanupOldStateEntries(pm) ==
    IF Cardinality(StoredIds(pm)) <= StateCeiling THEN pm ELSE KeepMostRecent(pm)

\* `current_processed.update(state_updates["processed_messages"])`
MergeMessages(current, upd) ==
    [m \in DOMAIN current |-> IF upd[m].stored THEN upd[m] ELSE current[m]]

\* Mutant of PendingActions: every configured action is pending again.
AllActions(actions, record) == actions

\* `[a for a in rule.actions if a not in message_record.get("actions_applied", [])]`
PendingActions(actions, record) == actions \ record.actions_applied

\* `datetime.now(tz=UTC).isoformat()` during the run: later than every
\* earlier record.
NowStamp == Cardinality(MessageIds) + rule_stats.messages_processed + 1

RuleFrame == UNCHANGED <<jsonVars, sqlVars, loadVars, retryVars, paceVars, feedVars,
    filterVars, pairVars, shareVars, labelVars>>

IdleRule ==
    /\ rule_pc = "idle"
    /\ rule_actions = {}
    /\ message_ids = {}
    /\ disk_messages = [m \in MessageIds |-> NoMessage]
    /\ processed_messages = [m \in MessageIds |-> NoMessage]
    /\ rule_stats = NoRuleStats
    /\ completed = {}
    /\ msg = NoMessageSeen

\* Before the run: the state file as earlier runs left it.
InitRule ==
    /\ rule_pc = "idle"
    /\ rule_actions = {}
    /\ message_ids = {}
    /\ disk_messages \in {pm \in [MessageIds -> UNION {EarlierRecords(m) : m \in MessageIds}] :
                            \A m \in MessageIds : pm[m] \in EarlierRecords(m)}
    /\ processed_messages = [m \in MessageIds |-> NoMessage]
    /\ rule_stats = NoRuleStats
    /\ completed = {}
    /\ msg = NoMessageSeen

\* collect_rule up to the loop: the state is loaded, cleaned up, and the
\* messages matching the rule are searched.
StartCollectRule(actions, found) ==
    /\ rule_pc = "idle"
    /\ rule_pc' = "loop"
    /\ rule_actions' = actions
    /\ message_ids' = found
    /\ processed_messages' = CleanupOldStateEntries(disk_messages)
    /\ UNCHANGED <<disk_messages, rule_stats, completed, msg>>
    /\ RuleFrame

\* One iteration of `for message_id in message_ids`, the checkpoint
\* included.  checkpoint_fails: update_state raises at the checkpoint.
ProcessMessage(m, outcome, checkpoint_fails) ==
    LET counted == [rule_stats EXCEPT !.messages_processed = @ + 1]
        message_record == disk_messages[m]
        pending_actions == PendingActions(rule_actions, message_record)
        seen == [id |-> m, recorded |-> message_record.actions_applied,
                 pending |-> pending_actions, ran |-> {}, outcome |-> outcome,
                 skipped |-> FALSE]
        skip == /\ rule_stats' = [counted EXCEPT !.messages_skipped = @ + 1]
                /\ UNCHANGED <<processed_messages, disk_messages, completed>>
        other_actions == pending_actions \ {"save"}
        applied_actions ==
            (IF "save" \in pending_actions /\ outcome # "save_false"
             THEN {"save"} ELSE {})
            \cup (IF outcome = "action_fails" THEN {} ELSE other_actions)
        new_record == MessageRecord(message_record.actions_applied \cup applied_actions,
                                    NowStamp)
        updated == [processed_messages EXCEPT ![m] = new_record]
    IN  /\ rule_pc = "loop"
        /\ m \in message_ids
        /\ \A o \in message_ids : m <= o
        /\ message_ids' = message_ids \ {m}
        /\ IF pending_actions = {}
           THEN /\ skip
                /\ msg' = [seen EXCEPT !.skipped = TRUE, !.outcome = "none"]
           ELSE IF outcome = "no_details"
           THEN /\ skip
                /\ msg' = [seen EXCEPT !.skipped = TRUE]
           ELSE IF outcome = "details_raise"
           THEN /\ rule_stats' = [counted EXCEPT !.errors = @ + 1]
                /\ msg' = seen
                /\ UNCHANGED <<processed_messages, disk_messages, completed>>
           ELSE IF outcome = "filtered" /\ "save" \in pending_actions
           THEN /\ skip
                /\ msg' = [seen EXCEPT !.skipped = TRUE]
           ELSE /\ rule_stats' = counted
                /\ msg' = [seen EXCEPT !.ran = pending_actions]
                /\ processed_messages' = updated
                /\ completed' = completed \cup {m}
                /\ IF counted.messages_processed % CheckpointEvery = 0 /\ ~checkpoint_fails
                   THEN disk_messages' = updated
                   ELSE UNCHANGED disk_messages
        /\ UNCHANGED <<rule_pc, rule_actions>>
        /\ RuleFrame

\* The operator aborts the run between two messages.
Interrupt ==
    /\ rule_pc = "loop"
    /\ rule_pc' = "interrupted"
    /\ UNCHANGED <<rule_actions, message_ids, disk_messages, processed_messages,
                   rule_stats, completed, msg>>
    /\ RuleFrame

\* The end of collect_rule: the merge into the state file under the lock,
\* or update_state when the lock file cannot be opened.
FinalMerge(lock_fails) ==
    /\ rule_pc = "loop"
    /\ message_ids = {}
    /\ rule_pc' = "done"
    /\ disk_messages' = IF lock_fails
                        THEN processed_messages
                        ELSE MergeMessages(disk_messages, processed_messages)
    /\ UNCHANGED <<rule_actions, message_ids, processed_messages, rule_stats,
                   completed, msg>>
    /\ RuleFrame

(***************************************************************************)
(* Content filters: tools/_shared/filters.py, and the places where the     *)
(* collectors combine config.default_filters with the filters of a rule,   *)
(* source, subreddit or site before they call apply_content_filter.        *)
(*                                                                         *)
(* A text is a sequence of one-character strings.  A keyword list is the   *)
(* set of its patterns: matches_keywords returns at the first pattern that *)
(* matches, so the order of the list plays no part in its result.  An      *)
(* instant is a number of seconds since the epoch, SecondsPerDay of them   *)
(* in a day; a date with a UTC offset is its wall-clock reading and that   *)
(* offset, a naive date its wall-clock reading and NoOffset.               *)
(***************************************************************************)
MaxAgeDays == 1
SecondsPerDay == 3
ZoneStep == 1

None == -1

NoOffset == 99

NoFilters == [max_age_days |-> None, min_score |-> None, min_comments |-> None,
              include_keywords |-> {}, exclude_keywords |-> {}, configured |-> FALSE]

NoContent == [title |-> <<>>, text |-> <<>>,
              created_date |-> [kind |-> "none", wall |-> 0, offset |-> NoOffset],
              score |-> [kind |-> "none", n |-> 0],
              num_comments |-> [kind |-> "none", n |-> 0]]

\* str.lower() on the alphabet the model's texts are written in
Lower(c) ==
    CASE c = "A" -> "a"
      [] c = "I" -> "i"
      [] c = "S" -> "s"
      [] OTHER -> c

LowerText(t) == [i \in 1..Len(t) |-> Lower(t[i])]

\* `pattern in search_text`
Contains(search_text, pattern) ==
    \E i \in 0..(Len(search_text) - Len(pattern)) :
        SubSeq(search_text, i + 1, i + Len(pattern)) = pattern

\* fnmatch.fnmatch(name, pat) for patterns of literals, "*" and "?"
RECURSIVE FnMatch(_, _)
FnMatch(name, pat) ==
    IF pat = <<>> THEN name = <<>>
    ELSE IF Head(pat) = "*"
         THEN FnMatch(name, Tail(pat)) \/ (name # <<>> /\ FnMatch(Tail(name), pat))
         ELSE /\ name # <<>>
              /\ Head(pat) = "?" \/ Head(pat) = Head(name)
              /\ FnMatch(Tail(name), Tail(pat))

HasWildcard(pattern) == \E i \in 1..Len(pattern) : pattern[i] \in {"*", "?"}

MatchesPattern(search_text, pattern) ==
    IF HasWildcard(pattern)
    THEN FnMatch(search_text, <<"*">> \o pattern \o <<"*">>)
    ELSE Contains(search_text, pattern)

MatchesKeywords(text_content, keyword_list) ==
    /\ text_content # <<>>
    /\ keyword_list # {}
    /\ \E keyword \in keyword_list :
          /\ keyword # <<>>
          /\ MatchesPattern(LowerText(text_content), LowerText(keyword))

\* the first component of what matches_keywords_debug returns
MatchesKeywordsDebug(text_content, keyword_list) ==
    /\ text_content # <<>>
    /\ keyword_list # {}
    /\ \E keyword \in keyword_list :
          /\ keyword # <<>>
          /\ MatchesPattern(LowerText(text_content), LowerText(keyword))

\* " ".join(text_parts) of the title and the text that are not empty
CombinedText(data) ==
    IF data.title # <<>> /\ data.text # <<>>
    THEN data.title \o <<" ">> \o data.text
    ELSE data.title \o data.text

(* What the try block of the age check makes of created_date: the instant  *)
(* content_date denotes after the normalisation to UTC, or the exception.  *)
(* datetime.fromtimestamp without tz returns the naive local time, which   *)
(* the normalisation then takes for a UTC reading.                         *)
ContentDate(created, zone) ==
    CASE created.kind \in {"iso", "datetime"} ->
             [raised |-> "none",
              at |-> IF created.offset = NoOffset THEN created.wall
                     ELSE created.wall - created.offset]
      [] created.kind = "epoch" ->
             [raised |-> "none", at |-> created.wall + zone]
      [] created.kind = "huge_epoch" -> [raised |-> "OverflowError", at |-> 0]
      [] created.kind = "object" -> [raised |-> "TypeError", at |-> 0]
      [] OTHER -> [raised |-> "ValueError", at |-> 0]

\* float(content_data["score"])
FloatOf(v) ==
    CASE v.kind \in {"number", "numeric_text"} -> [raised |-> "none", n |-> v.n]
      [] v.kind = "infinity" -> [raised |-> "none", n |-> v.n]
      [] v.kind = "object" -> [raised |-> "TypeError", n |-> 0]
      [] OTHER -> [raised |-> "ValueError", n |-> 0]

\* int(content_data["num_comments"])
IntOf(v) ==
    CASE v.kind \in {"number", "numeric_text"} -> [raised |-> "none", n |-> v.n]
      [] v.kind = "infinity" -> [raised |-> "OverflowError", n |-> 0]
      [] v.kind = "object" -> [raised |-> "TypeError", n |-> 0]
      [] OTHER -> [raised |-> "ValueError", n |-> 0]

\* except (ValueError, TypeError)
Caught == {"ValueError", "TypeError"}

OutcomeOfTry(raised, rejects) ==
    IF raised = "none" THEN (IF rejects THEN "fail" ELSE "pass")
    ELSE IF raised \in Caught THEN "skipped" ELSE raised

Cutoff(at, max_age) == at - max_age * SecondsPerDay

AgeCheck(data, criteria, at, zone) ==
    IF criteria.max_age_days = None \/ data.created_date.kind = "none"
    THEN "not_applicable"
    ELSE LET content_date == ContentDate(data.created_date, zone)
         IN  OutcomeOfTry(content_date.raised,
                          content_date.at < Cutoff(at, criteria.max_age_days))

ScoreCheck(data, criteria) ==
    IF criteria.min_score = None \/ data.score.kind = "none"
    THEN "not_applicable"
    ELSE LET score == FloatOf(data.score)
         IN  OutcomeOfTry(score.raised, score.n < criteria.min_score)

CommentsCheck(data, criteria) ==
    IF criteria.min_comments = None \/ data.num_comments.kind = "none"
    THEN "not_applicable"
    ELSE LET num_comments == IntOf(data.num_comments)
         IN  OutcomeOfTry(num_comments.raised, num_comments.n < criteria.min_comments)

IncludeCheck(data, criteria) ==
    IF criteria.include_keywords = {} THEN "not_applicable"
    ELSE IF MatchesKeywords(CombinedText(data), criteria.include_keywords)
         THEN "pass" ELSE "fail"

ExcludeCheck(data, criteria) ==
    IF criteria.exclude_keywords = {} THEN "not_applicable"
    ELSE IF MatchesKeywordsDebug(CombinedText(data), criteria.exclude_keywords)
         THEN "fail" ELSE "pass"

CheckOutcome(check, data, criteria, at, zone) ==
    CASE check = "age" -> AgeCheck(data, criteria, at, zone)
      [] check = "score" -> ScoreCheck(data, criteria)
      [] check = "comments" -> CommentsCheck(data, criteria)
      [] check = "include" -> IncludeCheck(data, criteria)
      [] OTHER -> ExcludeCheck(data, criteria)

ExcludeBeforeInclude == <<"age", "score", "comments", "exclude", "include">>

\* the order of the blocks of apply_content_filter
CheckOrder == <<"age", "score", "comments", "include", "exclude">>

\* the outcomes that leave the function: `return False`, or an exception
\* the except clause does not name
Leaves(outcome) == outcome \notin {"not_applicable", "pass", "skipped"}

RECURSIVE Evaluate(_, _, _, _, _)
Evaluate(i, data, criteria, at, zone) ==
    IF i > Len(CheckOrder) THEN <<>>
    ELSE LET outcome == CheckOutcome(CheckOrder[i], data, criteria, at, zone)
             entry == [check |-> CheckOrder[i], outcome |-> outcome]
         IN  IF outcome = "not_applicable"
             THEN Evaluate(i + 1, data, criteria, at, zone)
             ELSE IF Leaves(outcome) THEN <<entry>>
             ELSE <<entry>> \o Evaluate(i + 1, data, criteria, at, zone)

ResultOf(trace) ==
    IF trace = <<>> THEN "True"
    ELSE LET outcome == trace[Len(trace)].outcome
         IN  IF outcome = "fail" THEN "False"
             ELSE IF Leaves(outcome) THEN outcome ELSE "True"

\* the filter_criteria dict; a key the caller leaves out reads as None
Criteria(max_age, min_score, min_comments, include, exclude) ==
    [max_age_days |-> max_age, min_score |-> min_score, min_comments |-> min_comments,
     include_keywords |-> include, exclude_keywords |-> exclude]

NoCriteria == Criteria(None, None, None, {}, {})

\* a FilterCriteria object of the configuration
FilterCriteria(max_age, include, exclude) ==
    [max_age_days |-> max_age, min_score |-> None, min_comments |-> None,
     include_keywords |-> include, exclude_keywords |-> exclude, configured |-> TRUE]

\* ---- the values the calls are made with
Ai == <<"a", "i">>
Ml == <<"m", "l">>
Spam == <<"s", "p", "a", "m">>

Titles == {<<>>, <<"A", "I">>, Ml, <<"S", "p", "a", "m">> \o <<" ">> \o Ml}

IncludeLists == {{}, {Ai}, {Ml}}
ExcludeLists == {{}, {Spam}}

Ages == {None} \cup (1..MaxAgeDays)

Zones == {0 - ZoneStep, 0, ZoneStep}

\* the instants around the cutoffs the age check can compute
Instants(at) == {Cutoff(at, d) + k : d \in 1..MaxAgeDays, k \in {0 - 1, 0, 1}}

Dated(kind, at, offset) ==
    [kind |-> kind, wall |-> IF offset = NoOffset THEN at ELSE at + offset,
     offset |-> offset]

CreatedDates(at) ==
    {Dated(k, i, o) : k \in {"iso", "datetime"}, i \in Instants(at), o \in {NoOffset, ZoneStep}}
    \cup {Dated("epoch", i, NoOffset) : i \in Instants(at)}
    \cup {Dated(k, 0, NoOffset) : k \in {"none", "text", "huge_epoch"}}

Number(n) == [kind |-> "number", n |-> n]
Scores == {[kind |-> "none", n |-> 0], [kind |-> "text", n |-> 0], Number(0), Number(1)}
CommentCounts == Scores \cup {[kind |-> "infinity", n |-> 0]}
Thresholds == {None, 1}

Contents(at) ==
    [title : Titles, text : {<<>>}, created_date : CreatedDates(at),
     score : Scores, num_comments : CommentCounts]

CriteriaDicts ==
    {Criteria(a, s, c, i, e) :
        a \in Ages, s \in Thresholds, c \in Thresholds, i \in IncludeLists, e \in ExcludeLists}

ConfiguredFilters ==
    {NoFilters} \cup
    {FilterCriteria(a, i, e) : a \in Ages, i \in IncludeLists, e \in ExcludeLists}

\* a Gmail message or a fetched article: a title, a body, a date
Documents(at) ==
    {[NoContent EXCEPT !.title = t, !.text = b, !.created_date = d] :
        t \in {Ml, <<"A", "I">>}, b \in {<<>>, Spam},
        d \in {Dated("datetime", i, 0) : i \in Instants(at)}}

\* patterns and texts for direct calls of matches_keywords; the tests of the
\* module speak of patterns of more than WildcardLimit wildcards and of more
\* than PatternLimit characters
WildcardLimit == 3
PatternLimit == 200
LongPattern == [i \in 1..(PatternLimit + 1) |-> "a"]
Patterns == {<<>>, Ai, <<"A", "I">>, <<"a", "?">>, <<"m", "*", "x">>,
             <<"a", "*", "i", "*", "m", "*", "l", "*">>}
SearchTexts == {<<>>, Ai \o <<" ">> \o Ml, Ml}
KeywordCalls ==
    (SearchTexts \X Patterns) \cup {<<LongPattern \o <<"b">>, LongPattern>>}

FilterFrame ==
    UNCHANGED <<jsonVars, sqlVars, loadVars, retryVars, paceVars, feedVars, ruleVars,
                pairVars, shareVars, labelVars>>

IdleFilter ==
    /\ filter_pc = "idle"
    /\ fcall = "none"
    /\ tz_offset = 0
    /\ utc_now = 0
    /\ default_filters = NoFilters
    /\ source_filters = NoFilters
    /\ filter_criteria = NoCriteria
    /\ content_data = NoContent
    /\ checks = <<>>
    /\ result = "none"

\* a process in some time zone, at some instant late enough for every cutoff
\* to be an instant after the epoch
InitFilter ==
    /\ filter_pc = "idle"
    /\ fcall = "none"
    /\ tz_offset \in Zones
    /\ utc_now = (MaxAgeDays + 1) * SecondsPerDay
    /\ default_filters = NoFilters
    /\ source_filters = NoFilters
    /\ filter_criteria = NoCriteria
    /\ content_data = NoContent
    /\ checks = <<>>
    /\ result = "none"

\* the body of apply_content_filter, from the first check to its return
Filtered(data, criteria) ==
    /\ filter_criteria' = criteria
    /\ content_data' = data
    /\ checks' = Evaluate(1, data, criteria, utc_now, tz_offset)
    /\ result' = ResultOf(checks')
    /\ filter_pc' = "returned"
    /\ UNCHANGED <<tz_offset, utc_now>>

ApplyContentFilter(data, criteria) ==
    /\ filter_pc = "idle"
    /\ fcall' = "apply_content_filter"
    /\ default_filters' = NoFilters
    /\ source_filters' = NoFilters
    /\ Filtered(data, criteria)
    /\ FilterFrame

CallMatchesKeywords(text_content, keyword_list) ==
    /\ filter_pc = "idle"
    /\ fcall' = "matches_keywords"
    /\ default_filters' = NoFilters
    /\ source_filters' = NoFilters
    /\ filter_criteria' = [NoCriteria EXCEPT !.include_keywords = keyword_list]
    /\ content_data' = [NoContent EXCEPT !.title = text_content]
    /\ checks' = <<>>
    /\ result' = IF MatchesKeywords(text_content, keyword_list) THEN "True" ELSE "False"
    /\ filter_pc' = "returned"
    /\ UNCHANGED <<tz_offset, utc_now>>
    /\ FilterFrame

\* GmailCollector._should_process_message: the keyword lists of both levels
\* united, max_age_days of the rule before that of the defaults
ShouldProcessMessage(defaults, rule_filters, message_data) ==
    /\ filter_pc = "idle"
    /\ fcall' = "_should_process_message"
    /\ default_filters' = defaults
    /\ source_filters' = rule_filters
    /\ LET all_include_keywords ==
               defaults.include_keywords \cup rule_filters.include_keywords
           all_exclude_keywords ==
               defaults.exclude_keywords \cup rule_filters.exclude_keywords
           max_age_days ==
               IF rule_filters.max_age_days # None THEN rule_filters.max_age_days
               ELSE defaults.max_age_days
       IN  Filtered(message_data,
                    Criteria(max_age_days, None, None,
                             all_include_keywords, all_exclude_keywords))
    /\ FilterFrame

\* `specific.x or default.x` for a keyword list
ListOr(specific, default) == IF specific # {} THEN specific ELSE default

\* WebDirectCollector._merge_filters
MergeFilters(default, specific) ==
    IF ~default.configured /\ ~specific.configured THEN NoFilters
    ELSE IF ~default.configured THEN specific
    ELSE IF ~specific.configured THEN default
    ELSE FilterCriteria(
             IF specific.max_age_days # None THEN specific.max_age_days
             ELSE default.max_age_days,
             ListOr(specific.include_keywords, default.include_keywords),
             ListOr(specific.exclude_keywords, default.exclude_keywords))

\* the filtering of WebDirectCollector._fetch_article
FetchArticle(defaults, specific, article) ==
    /\ filter_pc = "idle"
    /\ fcall' = "_fetch_article"
    /\ default_filters' = defaults
    /\ source_filters' = specific
    /\ LET filters == MergeFilters(defaults, specific)
       IN  IF filters.configured
           THEN Filtered(article,
                         Criteria(filters.max_age_days, None, None,
                                  filters.include_keywords, filters.exclude_keywords))
           ELSE /\ filter_criteria' = NoCriteria
                /\ content_data' = article
                /\ checks' = <<>>
                /\ result' = "True"
                /\ filter_pc' = "returned"
                /\ UNCHANGED <<tz_offset, utc_now>>
    /\ FilterFrame

\* the caller has taken the result and is ready to make its next call
FilterReturn ==
    /\ filter_pc = "returned"
    /\ filter_pc' = "idle"
    /\ fcall' = "none"
    /\ default_filters' = NoFilters
    /\ source_filters' = NoFilters
    /\ filter_criteria' = NoCriteria
    /\ content_data' = NoContent
    /\ checks' = <<>>
    /\ result' = "none"
    /\ UNCHANGED <<tz_offset, utc_now>>
    /\ FilterFrame

(***************************************************************************)
(* The two state backends of tools/_shared/storage.py behind one caller.   *)
(* The caller makes each call on a JsonStateManager and on a               *)
(* SqliteStateManager alike; a call of a method the object does not have   *)
(* raises AttributeError and leaves its store as it was.                   *)
(***************************************************************************)
\* the public methods of the two classes
JsonMethods == {"load_state", "save_state", "update_state", "batch_update_state"}
SqliteMethods == {"is_item_processed", "mark_item_processed", "get_processed_items",
                  "cleanup_old_items"}

EmptyDict == [k \in {} |-> "x"]

\* the dicts a caller hands to update_state: values for some of the items
UpdateDicts == UNION {[keys -> {"x", "y"}] : keys \in SUBSET Items} \ {EmptyDict}

NoReturn == [raised |-> "none", kind |-> "none", flag |-> FALSE, n |-> 0, keys |-> {}]
ReturnsNone == [NoReturn EXCEPT !.kind = "None"]
ReturnsBool(b) == [NoReturn EXCEPT !.kind = "bool", !.flag = b]
ReturnsCount(n) == [NoReturn EXCEPT !.kind = "int", !.n = n]
ReturnsDict(d) == [NoReturn EXCEPT !.kind = "dict", !.keys = DOMAIN d]
AttributeError == [NoReturn EXCEPT !.raised = "AttributeError"]

NoPairCall == [method |-> "none", item_id |-> "", days |-> 0]

PairFrame ==
    UNCHANGED <<jsonVars, sqlVars, loadVars, retryVars, paceVars, feedVars, ruleVars,
                filterVars, shareVars, labelVars>>

IdlePair ==
    /\ pair_call = NoPairCall
    /\ json_file = EmptyDict
    /\ table_rows = {}
    /\ pair_now = StartTime
    /\ json_result = NoReturn
    /\ table_result = NoReturn

InitPair == IdlePair

\* time passes between two calls
PairTick ==
    /\ pair_now < EndTime
    /\ pair_now' = pair_now + 1
    /\ UNCHANGED <<pair_call, json_file, table_rows, json_result, table_result>>
    /\ PairFrame

\* backend.load_state()
CallLoadState ==
    /\ pair_call' = [NoPairCall EXCEPT !.method = "load_state"]
    /\ "load_state" \in JsonMethods
    /\ json_result' = ReturnsDict(json_file)
    /\ "load_state" \notin SqliteMethods
    /\ table_result' = AttributeError
    /\ UNCHANGED <<json_file, table_rows, pair_now>>
    /\ PairFrame

\* backend.update_state(updates)
CallUpdateState(upd) ==
    /\ pair_call' = [NoPairCall EXCEPT !.method = "update_state"]
    /\ "update_state" \in JsonMethods
    /\ json_file' = DictUpdate(json_file, upd)
    /\ json_result' = ReturnsNone
    /\ "update_state" \notin SqliteMethods
    /\ table_result' = AttributeError
    /\ UNCHANGED <<table_rows, pair_now>>
    /\ PairFrame

\* backend.is_item_processed(item_id)
CallIsItemProcessed(id) ==
    /\ pair_call' = [NoPairCall EXCEPT !.method = "is_item_processed", !.item_id = id]
    /\ "is_item_processed" \notin JsonMethods
    /\ json_result' = AttributeError
    /\ "is_item_processed" \in SqliteMethods
    /\ table_result' = ReturnsBool(\E r \in table_rows : r.item_id = id)
    /\ UNCHANGED <<json_file, table_rows, pair_now>>
    /\ PairFrame

\* backend.mark_item_processed(item_id, source_type, source_name)
CallMarkItemProcessed(id, st, sn) ==
    /\ pair_call' = [NoPairCall EXCEPT !.method = "mark_item_processed", !.item_id = id]
    /\ "mark_item_processed" \notin JsonMethods
    /\ json_result' = AttributeError
    /\ "mark_item_processed" \in SqliteMethods
    /\ table_rows' =
           InsertOrReplace(table_rows,
               [item_id |-> id, source_type |-> st, source_name |-> sn,
                processed_timestamp |-> Iso(pair_now),
                metadata_json |-> MetadataJson(NoMetadata)])
    /\ table_result' = ReturnsNone
    /\ UNCHANGED <<json_file, pair_now>>
    /\ PairFrame

\* backend.cleanup_old_items(days_to_retain)
CallCleanupOldItems(days) ==
    /\ pair_call' = [NoPairCall EXCEPT !.method = "cleanup_old_items", !.days = days]
    /\ "cleanup_old_items" \notin JsonMethods
    /\ json_result' = AttributeError
    /\ "cleanup_old_items" \in SqliteMethods
    /\ LET cutoff_iso == Iso(pair_now - days * TicksPerDay)
           deleted == {r \in table_rows : Predates(r.processed_timestamp, cutoff_iso)}
       IN  /\ table_rows' = table_rows \ deleted
           /\ table_result' = ReturnsCount(Cardinality(deleted))
    /\ UNCHANGED <<json_file, pair_now>>
    /\ PairFrame

(***************************************************************************)
(* Another process writing the Gmail state file while collect_rule runs:   *)
(* a second collector that records a message under the lock of             *)
(* JsonStateManager, at any moment between this run's initial load and its *)
(* final save.                                                             *)
(***************************************************************************)
MaxForeignWrites == 1

\* the records the other process writes: a message saved, or saved and archived
ForeignActions == {{"save"}, {"save", "archive"}}

ShareFrame ==
    UNCHANGED <<jsonVars, sqlVars, loadVars, retryVars, paceVars, feedVars,
                filterVars, pairVars, labelVars>>

IdleShare ==
    /\ foreign = [m \in MessageIds |-> NoMessage]
    /\ foreign_writes = 0

\* The other process stores its record of message m: it adds the record, or
\* replaces the one the file holds.
OtherProcessWrites(m, acts) ==
    /\ rule_pc = "loop"
    /\ foreign_writes < MaxForeignWrites
    /\ foreign_writes' = foreign_writes + 1
    /\ LET record == MessageRecord(disk_messages[m].actions_applied \cup acts, NowStamp)
       IN  /\ disk_messages' = [disk_messages EXCEPT ![m] = record]
           /\ foreign' = [foreign EXCEPT ![m] = record]
    /\ UNCHANGED <<rule_pc, rule_actions, message_ids, processed_messages, rule_stats,
                   completed, msg>>
    /\ ShareFrame

(***************************************************************************)
(* GmailCollector.collect_label_rule and _process_label_triggered_message  *)
(* for one message that carries the trigger label, over successive runs.   *)
(***************************************************************************)
MaxLabelRuns == 2

\* `label_rule.actions`
LabelRuleActions == (SUBSET {"save", "archive", "mark_read"}) \ {{}}

\* How a run goes for the message up to its actions: the details are
\* fetched and the filter lets it through, the details are None, the content
\* filter rejects it, or creating the output directory raises.
LabelOutcomes == {"ok", "no_details", "filtered", "mkdir_raises"}

NoLabelRun == [pending |-> {}, applied |-> {}, outcome |-> "none", success |-> FALSE,
               skipped |-> FALSE, state_saved |-> FALSE]

LabelFrame ==
    UNCHANGED <<jsonVars, sqlVars, loadVars, retryVars, paceVars, feedVars, ruleVars,
                filterVars, pairVars, shareVars>>

IdleLabel ==
    /\ label_actions = {}
    /\ label_record = {}
    /\ label_succeeded = {}
    /\ label_runs = 0
    /\ label_last = NoLabelRun

InitLabel ==
    /\ label_actions \in LabelRuleActions
    /\ label_record = {}
    /\ label_succeeded = {}
    /\ label_runs = 0
    /\ label_last = NoLabelRun

\* `len(applied_actions) > 0`
AnyApplied(applied_actions) == applied_actions # {}

\* _process_label_triggered_message: "save" is applied when the markdown
\* file has been written, each other action when the Gmail API accepted it.
AppliedActions(pending_actions, failed, outcome) ==
    IF outcome = "mkdir_raises" /\ "save" \in pending_actions THEN {}
    ELSE pending_actions \ failed

\* One run of collect_label_rule over the message, the final update_state
\* included.  failed: the pending actions that fail in this run;
\* state_fails: the final update_state raises.
CollectLabelRule(outcome, failed, state_fails) ==
    LET pending_actions == label_actions \ label_record
        applied_actions == AppliedActions(pending_actions, failed, outcome)
        success == AnyApplied(applied_actions)
        run == [NoLabelRun EXCEPT !.pending = pending_actions, !.outcome = outcome]
    IN  /\ label_runs < MaxLabelRuns
        /\ label_runs' = label_runs + 1
        /\ failed \subseteq pending_actions
        /\ IF pending_actions = {}
           THEN /\ label_last' = [run EXCEPT !.skipped = TRUE, !.outcome = "none"]
                /\ UNCHANGED <<label_record, label_succeeded>>
           ELSE IF outcome = "no_details" \/ (outcome = "filtered" /\ "save" \in pending_actions)
           THEN /\ label_last' = [run EXCEPT !.skipped = TRUE]
                /\ UNCHANGED <<label_record, label_succeeded>>
           ELSE /\ label_succeeded' = label_succeeded \cup applied_actions
                /\ label_last' = [run EXCEPT !.applied = applied_actions,
                                             !.success = success,
                                             !.state_saved = success /\ ~state_fails]
                /\ label_record' = IF success /\ ~state_fails
                                   THEN label_record \cup pending_actions
                                   ELSE label_record
        /\ UNCHANGED label_actions
        /\ LabelFrame

(***************************************************************************)
(* The specifications.  Each runs one part of the model; the other parts   *)
(* stay as they are before their first call.                               *)
(***************************************************************************)
IdleJson ==
    /\ stateIno = NoIno
    /\ content = [i \in Inodes |-> <<>>]
    /\ leaked = {}
    /\ lockHolder = NoProc
    /\ pc = [p \in Procs |-> "idle"]
    /\ op = [p \in Procs |-> "none"]
    /\ updates = [p \in Procs |-> EmptyContainer]
    /\ state = [p \in Procs |-> EmptyContainer]
    /\ fd = [p \in Procs |-> NoIno]
    /\ exc = [p \in Procs |-> "none"]
    /\ ret = [p \in Procs |-> EmptyContainer]
    /\ failures = 0
    /\ heldThroughout = [p \in Procs |-> FALSE]

IdleSqlite == InitSqlite

IdleLoad ==
    /\ doc = EmptyDoc
    /\ loadOut = NotRun
    /\ validOut = NotRun

\* The parts added after the three stores, before their first call.
IdleLater ==
    IdleRetry /\ IdlePace /\ IdleFeed /\ IdleRule /\ IdleFilter /\ IdlePair
    /\ IdleShare /\ IdleLabel

NextJson ==
    \E p \in Procs :
          \/ StartUpdateState(p)
          \/ StartLoadState(p)
          \/ StartCollectRuleMerge(p)
          \/ LoadOpen(p)
          \/ LoadRead(p)
          \/ SaveWrite(p)
          \/ SaveFlush(p)
          \/ SaveFlushFails(p)
          \/ SaveRename(p)
          \/ SaveRenameFails(p)
          \/ LockAcquire(p)
          \/ LockFails(p)
          \/ LockExit(p)

InitSpecJson == InitJson /\ IdleSqlite /\ IdleLoad /\ IdleLater

SpecJson == InitSpecJson /\ [][NextJson]_vars

NextSqlite ==
    \/ Tick
    \/ \E id \in Items : \E st \in SourceTypes : \E sn \in SourceNames : \E md \in Metadata :
          MarkItemProcessed(id, st, sn, md)
    \/ \E days \in 0..MaxDays : CleanupOldItems(days)

InitSpecSqlite == InitSqlite /\ IdleJson /\ IdleLoad /\ IdleLater

SpecSqlite == InitSpecSqlite /\ [][NextSqlite]_vars

NextLoad ==
    \/ RunLoadState
    \/ RunLoadStateWithValidation

InitSpecLoad == InitLoad /\ IdleJson /\ IdleSqlite /\ IdleLater

SpecLoad == InitSpecLoad /\ [][NextLoad]_vars

NextRetry ==
    \/ \E mr \in 0..MaxRetries : \E bd \in 1..MaxBaseDelay : ExecuteWithRetry(mr, bd)
    \/ ApiCallReturns
    \/ \E err \in HttpErrors \cup {UnexpectedError} : ApiCallRaises(err)
    \/ SleepAndContinue

InitSpecRetry == IdleRetry /\ IdleJson /\ IdleSqlite /\ IdleLoad /\ IdlePace /\ IdleFeed /\ IdleRule
    /\ IdleFilter /\ IdlePair /\ IdleShare /\ IdleLabel

SpecRetry == InitSpecRetry /\ [][NextRetry]_vars

\* The loop is straight-line code: once called it keeps taking steps.
SpecRetryLive == InitSpecRetry /\ [][NextRetry]_vars /\ WF_vars(NextRetry)

NextPace ==
    \/ Elapse
    \/ \E over \in 0..MaxOversleep : RateLimit(over)

InitSpecPace == InitPace /\ IdleJson /\ IdleSqlite /\ IdleLoad /\ IdleRetry /\ IdleFeed /\ IdleRule
    /\ IdleFilter /\ IdlePair /\ IdleShare /\ IdleLabel

SpecPace == InitSpecPace /\ [][NextPace]_vars

NextFeed ==
    \/ \E id \in Items : \E n \in 0..MaxComments :
       \E passes \in BOOLEAN : \E save_fails \in BOOLEAN : \E state_fails \in BOOLEAN :
          ProcessPost(id, n, passes, save_fails, state_fails)
    \/ \E id \in Items \cup {NoId} : \E n \in 0..MaxComments : \E d \in 0..MaxActivity :
       \E passes \in BOOLEAN : \E state_fails \in BOOLEAN :
          ProcessQuestion(id, n, d, passes, state_fails)

InitSpecFeed == InitFeed /\ IdleJson /\ IdleSqlite /\ IdleLoad /\ IdleRetry /\ IdlePace /\ IdleRule
    /\ IdleFilter /\ IdlePair /\ IdleShare /\ IdleLabel

SpecFeed == InitSpecFeed /\ [][NextFeed]_vars

NextRule ==
    \/ \E actions \in RuleActions :
       \E found \in {f \in SUBSET MessageIds : Cardinality(f) <= MaxMessages} :
          StartCollectRule(actions, found)
    \/ \E m \in MessageIds : \E outcome \in Outcomes : \E checkpoint_fails \in BOOLEAN :
          ProcessMessage(m, outcome, checkpoint_fails)
    \/ Interrupt
    \/ \E lock_fails \in BOOLEAN : FinalMerge(lock_fails)

InitSpecRule == InitRule /\ IdleJson /\ IdleSqlite /\ IdleLoad /\ IdleRetry /\ IdlePace /\ IdleFeed
    /\ IdleFilter /\ IdlePair /\ IdleShare /\ IdleLabel

SpecRule == InitSpecRule /\ [][NextRule]_vars

NextFilter ==
    \/ /\ filter_pc = "idle"
       /\ \E data \in Contents(utc_now), criteria \in CriteriaDicts :
             ApplyContentFilter(data, criteria)
    \/ /\ filter_pc = "idle"
       /\ \E call \in KeywordCalls : CallMatchesKeywords(call[1], {call[2]})
    \/ /\ filter_pc = "idle"
       /\ \E defaults \in ConfiguredFilters, rule_filters \in ConfiguredFilters,
             message_data \in Documents(utc_now) :
             ShouldProcessMessage(defaults, rule_filters, message_data)
    \/ /\ filter_pc = "idle"
       /\ \E defaults \in ConfiguredFilters, specific \in ConfiguredFilters,
             article \in Documents(utc_now) :
             FetchArticle(defaults, specific, article)
    \/ FilterReturn

InitSpecFilter ==
    InitFilter /\ IdleJson /\ IdleSqlite /\ IdleLoad /\ IdleRetry /\ IdlePace /\ IdleFeed
    /\ IdleRule /\ IdlePair /\ IdleShare /\ IdleLabel

SpecFilter == InitSpecFilter /\ [][NextFilter]_vars

NextPair ==
    \/ PairTick
    \/ CallLoadState
    \/ \E upd \in UpdateDicts : CallUpdateState(upd)
    \/ \E id \in Items : CallIsItemProcessed(id)
    \/ \E id \in Items, st \in SourceTypes, sn \in SourceNames :
          CallMarkItemProcessed(id, st, sn)
    \/ \E days \in 0..MaxDays : CallCleanupOldItems(days)

InitSpecPair ==
    InitPair /\ IdleJson /\ IdleSqlite /\ IdleLoad /\ IdleRetry /\ IdlePace /\ IdleFeed
    /\ IdleRule /\ IdleFilter /\ IdleShare /\ IdleLabel

SpecPair == InitSpecPair /\ [][NextPair]_vars

NextShare ==
    \/ NextRule
    \/ \E m \in MessageIds, acts \in ForeignActions : OtherProcessWrites(m, acts)

InitSpecShare == InitSpecRule

SpecShare == InitSpecShare /\ [][NextShare]_vars

NextLabel ==
    \E outcome \in LabelOutcomes, failed \in SUBSET {"save", "archive", "mark_read"},
       state_fails \in BOOLEAN :
        CollectLabelRule(outcome, failed, state_fails)

InitSpecLabel ==
    InitLabel /\ IdleJson /\ IdleSqlite /\ IdleLoad /\ IdleRetry /\ IdlePace /\ IdleFeed
    /\ IdleRule /\ IdleFilter /\ IdlePair /\ IdleShare

SpecLabel == InitSpecLabel /\ [][NextLabel]_vars


(***************************************************************************)
(* Claims about the file backend, checked under SpecJson.                  *)
(***************************************************************************)
\* Process p replaces the state file in this step (the os.rename of its save).
Renames(p) == pc[p] = "save_rename" /\ fd[p] # NoIno /\ stateIno' = fd[p]

Max(a, b) == IF a >= b THEN a ELSE b

\* C1: two stores on the same file run update({A: ...}) and update({B: ...})
\* with A # B; once both updates have completed, load() contains both A and B.
C1_BothUpdatesSurvive ==
    \A p \in Procs : \A q \in Procs \ {p} :
        ( /\ pc[p] = "done" /\ op[p] = "update_state" /\ exc[p] = "none"
          /\ pc[q] = "done" /\ op[q] = "update_state" /\ exc[q] = "none"
          /\ DOMAIN updates[p] # DOMAIN updates[q] )
        => (DOMAIN updates[p] \cup DOMAIN updates[q]) \subseteq DOMAIN Persisted

\* C2: update never removes an entry from a record's actions_applied: every
\* action recorded for an item before a step is still recorded after it.
C2_ActionsNeverRemoved ==
    [][\A x \in DOMAIN Persisted :
          /\ x \in DOMAIN Persisted'
          /\ Persisted[x].actions_applied \subseteq Persisted'[x].actions_applied]_vars

\* C3: every write of the state file happens while the writer holds the
\* exclusive lock (and so after a load made under that lock).
C3_WritesUnderLock ==
    [][\A p \in Procs : Renames(p) => lockHolder = p]_vars

\* C4: a load that runs while a save is in progress never reads a partially
\* written container: the file it has open, and the file the state path
\* names, hold a complete text at every moment.
C4_NoPartialRead ==
    /\ \A p \in Procs : pc[p] = "load_read" => ~IsPartial(content[fd[p]])
    /\ stateIno # NoIno => ~IsPartial(content[stateIno])

\* C4 witness: a load has the state file open while another process is in the
\* middle of writing its temp file.
C4_Witness ==
    \E p \in Procs : \E q \in Procs \ {p} :
        /\ pc[p] = "load_read"
        /\ pc[q] = "save_flush"
        /\ IsPartial(content[fd[q]])

\* C5: when another process holds the lock for the whole duration of an
\* update, the update fails with a StateManagementError and does not complete.
C5_LockTimeoutReported ==
    \A p \in Procs :
        (pc[p] = "done" /\ op[p] = "update_state" /\ heldThroughout[p])
        => exc[p] = "StateManagementError"

\* C6: the lock taken for the update is released on every exit path: a
\* process that has returned from, or raised out of, the locked merge does
\* not hold the lock.
C6_LockReleasedOnExit ==
    \A p \in Procs : pc[p] \in {"idle", "done"} => lockHolder # p

\* C6 witness: a locked merge ended by an exception, and another process
\* has acquired the lock since.
C6_Witness ==
    \E p \in Procs : \E q \in Procs \ {p} :
        /\ pc[p] = "done"
        /\ exc[p] = "ContentProcessingError"
        /\ lockHolder = q

Corrupted(d) ==
    \/ d.kind \in {"invalid_json", "list"}
    \/ d.kind = "dict" /\ d.pm = "wrongtype"

\* C7 (as claimed): load on a corrupted container does not raise and returns
\* a fresh empty container.
C7_LoadNeverRaises ==
    (loadOut.ran /\ Corrupted(doc)) =>
        (~loadOut.raised /\ loadOut.value \in {EmptyDoc, InitialState})

\* C7 (as amended): load_state raises on text that is no JSON and on a
\* top-level value that is no dict, and returns a dict of any shape as it is;
\* _load_state_with_validation never raises: for those two cases and for a
\* processed_messages of a wrong type it returns the fresh initial state, and
\* from a processed_messages dict it drops exactly the malformed entries.
C7_ValidatedLoadRecovers ==
    /\ loadOut.ran => (loadOut.raised <=> doc.kind \in {"invalid_json", "list"})
    /\ (loadOut.ran /\ doc.kind = "dict") => loadOut.value = doc
    /\ validOut.ran => ~validOut.raised
    /\ (validOut.ran /\ Corrupted(doc)) =>
          (validOut.fresh /\ validOut.value = InitialState)
    /\ (validOut.ran /\ doc.kind = "dict" /\ doc.pm = "dict") =>
          \A i \in Items :
              validOut.value.entries[i] =
                  IF doc.entries[i].shape \in {"notdict", "no_actions"}
                  THEN AbsentEntry ELSE doc.entries[i]

\* C7 witness: the validated load has run on text that is no JSON and has
\* returned the fresh initial state, where load_state raised.
C7_Witness ==
    /\ doc.kind = "invalid_json"
    /\ loadOut.ran /\ loadOut.raised
    /\ validOut.ran /\ validOut.fresh

(***************************************************************************)
(* Claims about the table backend, checked under SpecSqlite.               *)
(***************************************************************************)
RowsOf(id) == {r \in rows : r.item_id = id}

\* C8: after markProcessed has been called twice in a row with identical
\* arguments, the table holds exactly one row for the id, carrying those
\* arguments, and isProcessed(id) is true.
C8_MarkTwiceOneRecord ==
    (lastCall.fn = "mark" /\ lastCall.repeat) =>
        /\ Cardinality(RowsOf(lastCall.item_id)) = 1
        /\ IsItemProcessed(lastCall.item_id)
        /\ \A r \in RowsOf(lastCall.item_id) :
              /\ r.source_type = lastCall.source_type
              /\ r.source_name = lastCall.source_name
              /\ r.metadata_json = MetadataJson(lastCall.metadata)

\* C8 witness: the second of two identical calls was made at a later reading
\* of the clock than the first.
C8_Witness ==
    /\ lastCall.fn = "mark"
    /\ lastCall.repeat
    /\ lastCall.at > StartTime
    /\ \E r \in rows : r.item_id # lastCall.item_id

\* The step is a call of cleanup_old_items.
IsCleanupStep == calls' = calls + 1 /\ lastCall'.fn = "cleanup"

\* The time before which cleanup_old_items deletes.
CutoffOf(call) == call.at - call.days * TicksPerDay

\* C9 (as amended): cleanupOlderThan(retentionDays) removes exactly the
\* records whose last_processed is before now - retentionDays, keeps the
\* others and returns the number removed; markProcessed(id) followed by
\* cleanupOlderThan(0) leaves isProcessed(id) false when the cleanup reads a
\* later time than the mark did, and true when it reads the same time.
C9_CleanupRemovesOlder ==
    /\ [][IsCleanupStep =>
            /\ rows' = {r \in rows : ~(TimeOf(r.processed_timestamp) < CutoffOf(lastCall'))}
            /\ lastCall'.result = Cardinality(rows) - Cardinality(rows')]_vars
    /\ []((lastCall.fn = "cleanup" /\ lastCall.days = 0 /\ lastCall.prevMarked # "") =>
            (IsItemProcessed(lastCall.prevMarked) <=> lastCall.prevAt = lastCall.at))

\* C9 witness: a cleanup has removed one record and kept another.
C9_Witness ==
    /\ lastCall.fn = "cleanup"
    /\ lastCall.result > 0
    /\ rows # {}

\* C9 (as claimed, its last part): markProcessed(id) followed by
\* cleanupOlderThan(0) leaves isProcessed(id) false.
C9_MarkThenCleanupZero ==
    (lastCall.fn = "cleanup" /\ lastCall.days = 0 /\ lastCall.prevMarked # "") =>
        ~IsItemProcessed(lastCall.prevMarked)

(***************************************************************************)
(* Claims about _execute_with_retry, checked under SpecRetry and           *)
(* SpecRetryLive.                                                          *)
(***************************************************************************)
\* api_call_func raises in this step.
ApiCallFails == retry_pc = "call" /\ invocations' = invocations + 1 /\ retry_pc' # "returned"

\* The failure is one the spec calls transient.
Transient(err) == err.kind = "HttpError" /\ err.status \in {429, 500, 502, 503, 504}

\* C17: after a transient failure (HTTP 429, 500, 502, 503 or 504) with a
\* retry left, _execute_with_retry computes the delay
\* base_delay * 2^attempt + jitter with jitter between 0 and 1 second, sleeps
\* once, and the step after the sleep is the next attempt, which invokes
\* api_call_func again; when an invocation returns, the call has returned and
\* api_call_func is never invoked again.
C17_BackoffThenRetry ==
    /\ [][(ApiCallFails /\ Transient(last_error') /\ attempt < max_retries)
            => /\ retry_pc' = "sleep"
               /\ \E jitter \in 0..JitterSteps :
                      delay' = base_delay * Pow2(attempt) + jitter]_vars
    /\ [][retry_pc = "sleep"
            => /\ sleeps' = sleeps + 1
               /\ invocations' = invocations
               /\ retry_pc' = "call"
               /\ attempt' = attempt + 1]_vars
    /\ [][(retry_pc = "call" /\ retry_pc' # "call")
            => invocations' = invocations + 1]_vars
    /\ [][retry_pc = "returned"
            => (invocations' = invocations /\ sleeps' = sleeps
                /\ retry_pc' = "returned")]_vars
    /\ [](retry_pc = "returned" => invocations = sleeps + 1)

\* C17 witness: the call returned on its third attempt, after two transient
\* failures and two sleeps, the second one longer than the base delay allows
\* without doubling.
C17_Witness ==
    /\ retry_pc = "returned"
    /\ invocations = 3
    /\ sleeps = 2
    /\ Transient(last_error)
    /\ delay > base_delay + JitterSteps

\* The failure is not one of the five transient statuses.
NonTransient(err) == err # NoError /\ ~Transient(err)

\* C18 (as the code has it): on a non-transient failure _execute_with_retry
\* raises in the same step, with no sleep after it and no further invocation
\* of api_call_func; api_call_func has then been invoked once for each
\* transient failure slept on before it plus once for the failing attempt,
\* which is exactly once when the first attempt is the one that fails.
C18_NonTransientFailsAtOnce ==
    /\ [][(ApiCallFails /\ NonTransient(last_error'))
            => /\ retry_pc' = "raised"
               /\ sleeps' = sleeps
               /\ invocations' = sleeps + 1]_vars
    /\ [][retry_pc = "raised"
            => (invocations' = invocations /\ sleeps' = sleeps
                /\ retry_pc' = "raised")]_vars
    /\ []((retry_pc = "raised" /\ NonTransient(last_error) /\ sleeps = 0)
            => invocations = 1)

\* C18 witness: the first attempt failed with a non-transient status although
\* retries were allowed; the call raised after that single invocation.
C18_Witness ==
    /\ retry_pc = "raised"
    /\ NonTransient(last_error)
    /\ max_retries > 0
    /\ invocations = 1
    /\ sleeps = 0

\* C18 as stated: whenever _execute_with_retry has failed on a non-transient
\* failure, api_call_func has been invoked exactly once.
C18_InvokedExactlyOnce ==
    (retry_pc = "raised" /\ NonTransient(last_error)) => invocations = 1

\* C19 (as the code has it): _execute_with_retry always terminates;
\* api_call_func is invoked at most max_retries + 1 times, the first attempt
\* and max_retries retries; when every invocation failed transiently it has
\* been invoked exactly max_retries + 1 times, and the error raised is a
\* NetworkConnectionError whose cause is the last failure.
C19_TerminatesAfterRetries ==
    /\ [](invocations <= max_retries + 1)
    /\ []((retry_pc = "raised" /\ Transient(last_error))
            => invocations = max_retries + 1)
    /\ [](retry_pc = "raised"
            => /\ last_error # NoError
               /\ raised_error = [type |-> "NetworkConnectionError",
                                  cause |-> last_error])
    /\ (retry_pc = "call" ~> retry_pc \in {"returned", "raised"})

\* C19 witness: two retries were allowed, all three invocations failed
\* transiently, and the call raised with the last failure as cause.
C19_Witness ==
    /\ retry_pc = "raised"
    /\ max_retries = 2
    /\ invocations = 3
    /\ sleeps = 2
    /\ Transient(last_error)
    /\ raised_error.cause = last_error

\* C19 as stated, with maxAttempts the configured retry_max_attempts: when
\* every invocation failed transiently, api_call_func was invoked at most
\* max_retries times.
C19_AtMostMaxAttempts ==
    (retry_pc = "raised" /\ Transient(last_error)) => invocations <= max_retries

(***************************************************************************)
(* Claims about the rate limiter, checked under SpecPace.                  *)
(***************************************************************************)
\* C20: the first call of _rate_limit returns without sleeping, at the time
\* it was made; for every later call the time between the previous call and
\* this one, as _last_request records them, is at least
\* 1 / requests_per_second.
C20_MinimumInterval ==
    /\ [][(last_request = NoTime /\ requests' = requests + 1)
            => (clock' = clock /\ slept' = 0 /\ last_request' = clock)]_vars
    /\ [](requests = 1 => slept = 0)
    /\ []((requests >= 2)
            => (last_request - prev_request) * requests_per_second >= SecondTicks)

\* C20 witness: a later call arrived before the interval had passed, slept,
\* and left exactly the minimum interval between the two calls.
C20_Witness ==
    /\ requests >= 2
    /\ slept > 0
    /\ (last_request - prev_request) * requests_per_second = SecondTicks

C13_UnchangedIsSkipped ==
    /\ [](last.decision = "UNCHANGED"
            => /\ ~last.filter_evaluated
               /\ ~last.content_fetched
               /\ ~last.file_written
               /\ ~last.state_written)
    /\ [][(stats'.processed = stats.processed + 1 /\ last'.decision = "UNCHANGED")
            => /\ persisted_state' = persisted_state
               /\ local_state' = local_state
               /\ stats'.skipped = stats.skipped + 1
               /\ stats'.saved = stats.saved
               /\ stats'.updated = stats.updated]_vars

\* C13 witness: a post stored with the comment count the listing reports
\* was skipped.
C13_Witness ==
    /\ driver = "reddit"
    /\ last.decision = "UNCHANGED"
    /\ last.stored.stored
    /\ last.count = last.stored.count
    /\ stats.skipped >= 1

\* C16 as stated: when persisting the state of an item raised, the item was
\* counted in the error count of the run.
C16_StateErrorCounted ==
    last.state_error => (last.counted_error /\ stats.errors >= 1)

(***************************************************************************)
(* Claims about GmailCollector.collect_rule, checked under SpecRule.       *)
(***************************************************************************)
\* C11 as stated: after a completed collection run the persisted container
\* holds at most the configured ceiling of records.
C11_CeilingKept ==
    rule_pc = "done" => Cardinality(StoredIds(disk_messages)) <= StateCeiling

\* The loop handles a message in this step.
HandlesMessage == rule_stats'.messages_processed = rule_stats.messages_processed + 1

\* The actions of the rule not recorded for the message handled in this
\* step, by the state file as it is before the step.
NotYetRecorded == rule_actions \ disk_messages[msg'.id].actions_applied

\* The message handled in this step could be fetched and, when "save" is
\* among the actions to run, passed the content filter of the rule.
Admitted ==
    /\ msg'.outcome \notin {"no_details", "details_raise"}
    /\ ~(msg'.outcome = "filtered" /\ "save" \in NotYetRecorded)

C15_CompletedItemsPersisted ==
    rule_pc = "interrupted"
        => \A m \in completed : disk_messages[m] = processed_messages[m]

(***************************************************************************)
(* Claims about the content filters, checked under SpecFilter.             *)
(***************************************************************************)
Cascaded == fcall \in {"_should_process_message", "_fetch_article"}

RanChecks == fcall \in {"apply_content_filter", "_should_process_message", "_fetch_article"}

\* C21: the include and the exclude keyword list a collector filters with
\* are the unions of the lists of its default filters and of the more
\* specific filters, so that a keyword of either level counts.
C21_KeywordListsUnited ==
    Cascaded =>
        /\ filter_criteria.include_keywords =
               default_filters.include_keywords \cup source_filters.include_keywords
        /\ filter_criteria.exclude_keywords =
               default_filters.exclude_keywords \cup source_filters.exclude_keywords

\* the instant a created_date of the model stands for
InstantOf(created) ==
    IF created.offset = NoOffset THEN created.wall ELSE created.wall - created.offset

\* C22: with max_age_days set, content dated one second before the cutoff
\* now - max_age_days fails the age check, and content dated one second
\* after it passes the age check, whether the date is an ISO-8601 string,
\* a datetime or an epoch number.
C22_AgeBoundary ==
    (/\ fcall = "apply_content_filter"
     /\ filter_criteria.max_age_days # None
     /\ content_data.created_date.kind \in {"iso", "datetime", "epoch"}) =>
        LET cutoff == utc_now - filter_criteria.max_age_days * SecondsPerDay
            instant == InstantOf(content_data.created_date)
        IN  /\ checks[1].check = "age"
            /\ instant = cutoff - 1 => checks[1].outcome = "fail"
            /\ instant = cutoff + 1 => checks[1].outcome = "pass"

\* C23: apply_content_filter raises nothing for malformed content: it
\* returns True or False, and a created date it cannot parse leaves the age
\* check skipped.
C23_NeverRaises ==
    fcall = "apply_content_filter" =>
        /\ result \in {"True", "False"}
        /\ (/\ filter_criteria.max_age_days # None
            /\ content_data.created_date.kind \in {"text", "huge_epoch"}) =>
               checks[1] = [check |-> "age", outcome |-> "skipped"]

C24_Rank(check) ==
    CASE check = "age" -> 1
      [] check = "score" -> 2
      [] check = "comments" -> 3
      [] check = "include" -> 4
      [] check = "exclude" -> 5

C24_Fails(check) ==
    CheckOutcome(check, content_data, filter_criteria, utc_now, tz_offset) = "fail"

\* C24: the checks are evaluated in the order age, score, comment count,
\* include keywords, exclude keywords; False is returned at the first check
\* that fails and no later check is evaluated; True is returned only when
\* no check fails.
C24_OrderedShortCircuit ==
    RanChecks =>
        /\ \A i, j \in 1..Len(checks) :
               i < j => C24_Rank(checks[i].check) < C24_Rank(checks[j].check)
        /\ \A i \in 1..(Len(checks) - 1) : checks[i].outcome # "fail"
        /\ result = "False" <=>
               (checks # <<>> /\ checks[Len(checks)].outcome = "fail")
        /\ result = "False" =>
               \A check \in {"age", "score", "comments", "include", "exclude"} :
                   C24_Rank(check) < C24_Rank(checks[Len(checks)].check) => ~C24_Fails(check)
        /\ result = "True" =>
               \A check \in {"age", "score", "comments", "include", "exclude"} :
                   ~C24_Fails(check)

\* a call where the score check fails after the age check has passed, and
\* the include check, which would fail too, is not evaluated
C24_Witness ==
    /\ fcall = "apply_content_filter"
    /\ result = "False"
    /\ Len(checks) = 2
    /\ checks[1] = [check |-> "age", outcome |-> "pass"]
    /\ checks[2] = [check |-> "score", outcome |-> "fail"]
    /\ C24_Fails("include")

WildcardCount(pattern) == Cardinality({i \in 1..Len(pattern) : pattern[i] \in {"*", "?"}})

\* C25: a pattern of more than three wildcards, or of more than 200
\* characters, is rejected before matching, so that it never matches.
C25_UnsafePatternNeverMatches ==
    (/\ fcall = "matches_keywords"
     /\ \A pattern \in filter_criteria.include_keywords :
           WildcardCount(pattern) > WildcardLimit \/ Len(pattern) > PatternLimit) =>
        result = "False"

(***************************************************************************)
(* Claims about the two backends together, checked under SpecPair.         *)
(***************************************************************************)
SameReturn(a, b) ==
    /\ a.raised = b.raised
    /\ a.kind = b.kind
    /\ a.flag = b.flag
    /\ a.n = b.n
    /\ a.keys = b.keys

\* C26: the JSON-file backend and the table backend are interchangeable:
\* after every sequence of calls both have returned the same result to the
\* last call and both hold records of the same items.
C26_BackendsAgree ==
    /\ SameReturn(json_result, table_result)
    /\ DOMAIN json_file = {r.item_id : r \in table_rows}

(***************************************************************************)
(* Claims about collect_rule beside another writer, checked under          *)
(* SpecShare.                                                              *)
(***************************************************************************)
\* C27: when collect_rule has made its final save, every record another
\* process added or changed since the run loaded the state, for a message
\* the run did not process itself, is in the state file as that process
\* wrote it.
C27_ForeignWritesSurvive ==
    rule_pc = "done" =>
        \A m \in MessageIds \ completed :
            foreign[m].stored => disk_messages[m] = foreign[m]

(***************************************************************************)
(* Claims about collect_label_rule, checked under SpecLabel.               *)
(***************************************************************************)
\* C28: an action is in the recorded actions_applied of the message only if
\* it was applied to the message successfully; an action that failed is not
\* recorded, so that it is pending again in the next run.
C28_RecordedOnlyIfApplied == label_record \subseteq label_succeeded

\* C30: the message is recorded with "save" in its actions_applied only
\* after its content has been written successfully; when the write fails
\* it is not so recorded, and the next run saves it again.
C30_SaveRecordedAfterWrite ==
    /\ "save" \in label_record => "save" \in label_succeeded
    /\ ("save" \in label_last.pending /\ ~label_last.skipped
        /\ "save" \notin label_last.applied) => "save" \notin label_record

(***************************************************************************)
(* Claims about a failing save_state, checked under SpecJson.              *)
(***************************************************************************)
SaveFailsNow(p) ==
    /\ pc[p] \in {"save_write", "save_flush", "save_rename"}
    /\ exc[p] = "none"
    /\ exc'[p] # "none"

\* C29: a save_state call that fails leaves the directory as it was before
\* the call: the state file is the same file with the same text, and the
\* temporary file of the call is gone.
C29_FailedSaveLeavesDirectory ==
    [][\A p \in Procs :
          SaveFailsNow(p) =>
              /\ stateIno' = stateIno
              /\ stateIno # NoIno => content'[stateIno] = content[stateIno]
              /\ fd[p] \notin leaked']_vars
====
